---- MODULE Spec2Model ----
(***************************************************************************)
(* FluentBitNexusManager: the update decision-and-execution engine.        *)
(*                                                                         *)
(* The host is modelled by the files and service records the agent reads   *)
(* and writes: the downloaded package, the extraction workspace, the two   *)
(* installed executables, their backups, the two hash ledgers and the      *)
(* service controller's registration and run state of the two managed      *)
(* services.  File contents are abstract identities; SHA-256 is an         *)
(* injective map from contents to digests.  Every outcome of a call into   *)
(* the operating system (download, extraction, process launch, file copy,  *)
(* service start and stop) is chosen nondeterministically.                 *)
(***************************************************************************)
EXTENDS Integers, Sequences, FiniteSets, TLC

VARIABLES
    remote,          \* id of the package currently published in the remote store
    zipFile,         \* package id held by the downloaded archive, 0 = no file
    extracted,       \* extraction workspace: staged executables and policy documents
    target,          \* installed executable of each service, 0 = no file
    backup,          \* backup file of each service in the backup directory, 0 = no file
    installed,       \* service controller: is the service registered
    svcRunning,      \* service controller: is the service in state RUNNING
    zipLedger,       \* zip_hashes.json
    svcLedger,       \* service_hashes.json
    pc,              \* position of the agent
    idx,             \* index of the next managed service in the current loop
    running,         \* MainService::running
    m_fullReinstall, \* ServiceUpgradeManager::m_fullReinstall
    updatePerformed, \* the loop flag of PerformUpgrade / PerformInitialInstallation
    pre,             \* host state at the start of the current run
    fetched,         \* what the fetch step of the current run did
    trace,           \* per service: what the current run did to it
    result,          \* return value of the last completed run
    faults,          \* disturbances the operating system has caused so far
    beat,            \* parity of the number of matching ticks of the scheduler
    unit             \* a component exercised on its own: its file, ledger and last call

vars == <<remote, zipFile, extracted, target, backup, installed,
          svcRunning, zipLedger, svcLedger, pc, idx, running,
          m_fullReinstall, updatePerformed, pre, fetched, trace, result,
          faults, beat, unit>>

----------------------------------------------------------------------------
(* Bounds of the model. *)

MaxVer == 2          \* executable images 1..MaxVer
MaxStopDelay == 11   \* seconds a service may need to leave RUNNING after a stop request
MaxStartNeeds == 6   \* start attempts a service may need before it is RUNNING
MaxRollbackPolls == 4 \* polls a service may need after the rollback start request
MaxFaults == 2       \* disturbances (failed or slow system calls) in one behaviour
MaxCalls == 3        \* calls made on one ConfigFileMonitor instance

(* Program constants. *)

StopRetries == 10     \* int retries = 10
StartAttempts == 5    \* attempt <= 5
RollbackAttempts == 3 \* attempt <= 3

Services == {1, 2}
Min(a, b) == IF a < b THEN a ELSE b
Garbage == MaxVer + 1   \* a partially written executable

----------------------------------------------------------------------------
(* Paths.  A path is a sequence of name and separator tokens. *)

Sep == "\\"

ZipDirectory == <<"upgrade", Sep, "zip", Sep>>
BlobName == <<"ncrv_dcs_streaming_service_upgrade_manager.zip">>
ZipFilePath == ZipDirectory \o BlobName
ExtractedPath == ZipDirectory \o <<"extracted", Sep>>
ServiceHashFilePath == ExtractedPath \o <<"service_hashes.json">>
\* path::filename
Filename(p) == <<p[Len(p)]>>
UpgradeDownloadPath == ZipDirectory \o <<Sep>> \o BlobName
\* The package file spelled with forward slashes and with upper-case
\* directory names: on Windows each of the four spellings opens the same file.
ZipFilePathForward == <<"upgrade", "/", "zip", "/">> \o BlobName
ZipFilePathUpper == <<"UPGRADE", Sep, "ZIP", Sep>> \o BlobName

Service1TargetPath == <<"install", Sep, "FluentBitManager.exe">>
Service2TargetPath == <<"install", Sep, "watchdog", Sep, "WatchdogFluentBit.exe">>
TargetPath(s) == IF s = 1 THEN Service1TargetPath ELSE Service2TargetPath

RECURSIVE NormalizePath(_)
NormalizePath(p) ==
    IF Len(p) < 2 THEN p
    ELSE IF p[1] = Sep /\ p[2] = Sep THEN NormalizePath(Tail(p))
         ELSE <<p[1]>> \o NormalizePath(Tail(p))

----------------------------------------------------------------------------
(* Digests and ledgers. *)

NoDigest == 0
\* The content of a file that exists but cannot be opened for reading.
Unreadable == -1
\* NoDigest stands for std::nullopt: the file cannot be opened.
GetFileSHA256(content) ==
    IF content = 0 \/ content = Unreadable THEN NoDigest ELSE content + content + 1

\* The timestamp of an entry is kept relative to the current run: Now for an
\* entry the current run wrote, Old for an entry an earlier run wrote.
Now == "now"
Old == "old"
NoEntry == [file_hash |-> NoDigest, timestamp |-> "none"]

\* The passing of time between two runs.
Aged(ledger) ==
    [ledger EXCEPT !.map = [k \in DOMAIN ledger.map |->
        IF ledger.map[k].timestamp = Now
        THEN [ledger.map[k] EXCEPT !.timestamp = Old]
        ELSE ledger.map[k]]]

ZipKeys == {NormalizePath(ZipFilePath)}

\* The paths a ledger is asked about on its own, and the keys they give.
LedgerPaths == {ZipFilePath, UpgradeDownloadPath, ZipFilePathForward,
                ZipFilePathUpper, Service1TargetPath}
LedgerKeys == {NormalizePath(p) : p \in LedgerPaths}
SvcKeys == {NormalizePath(TargetPath(s)) : s \in Services}

\* A ledger file is missing or holds text: a JSON object (json = "object"),
\* a JSON value of another type ("nonobject") or no JSON at all
\* ("unparseable").  map is the object it holds, over the keys in use.
MissingLedger(keys) ==
    [exists |-> FALSE, json |-> "object", map |-> [k \in keys |-> NoEntry]]

ResetJsonFile(ledger) ==
    [exists |-> TRUE, json |-> "object", map |-> [k \in DOMAIN ledger.map |-> NoEntry]]

\* The ledger file parses to a JSON object.
IsObject(ledger) == ledger.exists /\ ledger.json = "object"

\* A store that files the entry under the path as it is spelled.
StoreFileHash_UnderSpelledPath(ledger, path, hash, now) ==
    LET j == IF IsObject(ledger) THEN ledger.map
             ELSE [k \in DOMAIN ledger.map |-> NoEntry]
    IN  [exists |-> TRUE, json |-> "object",
         map |-> [k \in DOMAIN j |->
                    IF k = path THEN [file_hash |-> hash, timestamp |-> now]
                    ELSE j[k]]]

StoreFileHash(ledger, path, hash, now) ==
    LET j == IF IsObject(ledger) THEN ledger.map
             ELSE [k \in DOMAIN ledger.map |-> NoEntry]
    IN  [exists |-> TRUE, json |-> "object",
         map |-> [j EXCEPT ![NormalizePath(path)] =
                     [file_hash |-> hash, timestamp |-> now]]]

\* The digest GetStoredFileHash returns; NoDigest stands for std::nullopt.
GetStoredFileHash(ledger, path) ==
    IF ~IsObject(ledger) THEN NoDigest
    ELSE ledger.map[NormalizePath(path)].file_hash

\* FileHasher::HasFileChanged for a file whose digest is currentHash.
HasFileChanged(ledger, path, currentHash) ==
    LET storedHash == GetStoredFileHash(ledger, path)
    IN  storedHash = NoDigest \/ storedHash # currentHash

\* A lookup that leaves a ledger file it could not read as it found it.
LedgerAfterGet_LeavesFile(ledger) == ledger

\* The ledger file GetStoredFileHash leaves behind.
LedgerAfterGet(ledger) ==
    IF ~IsObject(ledger) THEN ResetJsonFile(ledger) ELSE ledger

----------------------------------------------------------------------------
(* Packages.  A package holds zero or more service executables and the two  *)
(* optional policy documents.  A policy document is absent, unreadable, or  *)
(* a JSON value whose flag is true, false, missing or of the wrong type.    *)

PolicyDocs == {"absent", "unopenable", "unparseable", "nofield", "nonbool", "false", "true"}

\* install_config.json can also hold a services entry whose name or exe is
\* not a string; reading it throws.
InstallPolicyDocs == PolicyDocs \cup {"badservice"}

Packages == <<
    [exe |-> <<1, 1>>, up |-> "absent", inst |-> "absent"],
    [exe |-> <<1, 2>>, up |-> "false",  inst |-> "absent"],
    [exe |-> <<2, 2>>, up |-> "true",   inst |-> "false"],
    [exe |-> <<0, 2>>, up |-> "absent", inst |-> "true"] >>

PackageIds == 1..Len(Packages)

EmptyWorkspace == [exe |-> <<0, 0>>, up |-> "absent", inst |-> "absent"]

\* ZipManager::ExtractArchiveToFolder writes every entry of the archive over
\* the workspace and leaves the other files of the workspace alone.
ExtractArchiveToFolder(pkg, ws) ==
    [exe |-> [s \in Services |-> IF pkg.exe[s] # 0 THEN pkg.exe[s] ELSE ws.exe[s]],
     up |-> IF pkg.up # "absent" THEN pkg.up ELSE ws.up,
     inst |-> IF pkg.inst # "absent" THEN pkg.inst ELSE ws.inst]

\* A cleanup whose loop skips no entry.
CleanSkips_Nothing(entry) == FALSE

\* The loop of CleanExtractedFolder passes over the entry of the workspace
\* whose file name is service_hashes.json.
CleanSkips(entry) == Filename(entry) = <<"service_hashes.json">>

\* UpdateManager::CleanExtractedFolder removes everything but service_hashes.json.
CleanExtractedFolder(ws) == EmptyWorkspace

\* The ledger of the executables is a file of the workspace: what
\* CleanExtractedFolder leaves of it.
LedgerAfterClean(ledger) ==
    IF CleanSkips(ServiceHashFilePath) THEN ledger
    ELSE MissingLedger(DOMAIN ledger.map)

\* A reader that takes any value of the field other than false as a request.
DetermineUpdateType_TruthyField(doc) ==
    IF doc \in {"true", "nonbool"} THEN "FULL_REINSTALL" ELSE "RESTART_ONLY"

DetermineUpdateType(doc) ==
    IF doc = "true" THEN "FULL_REINSTALL" ELSE "RESTART_ONLY"

NeedsFullReinstall(ws) == DetermineUpdateType(ws.up) = "FULL_REINSTALL"

----------------------------------------------------------------------------
(* ConfigFileMonitor on the downloaded package. *)

\* The constructor: Initialize() stores the digest of a package file that is
\* already on disk when the ledger holds none for it.
MonitorInitialize(zip, ledger, path, now) ==
    IF zip = 0 THEN ledger
    ELSE IF GetStoredFileHash(ledger, path) = NoDigest /\ GetFileSHA256(zip) # NoDigest
         THEN StoreFileHash(LedgerAfterGet(ledger), path, GetFileSHA256(zip), now)
         ELSE LedgerAfterGet(ledger)

\* A monitor that reports every package it is asked about as changed.
ShouldRestartService_AlwaysChanged(zip, ledger, path, firstTime, now) ==
    [ret |-> TRUE, ledger |-> StoreFileHash(ledger, path, GetFileSHA256(zip), now),
     firstTime |-> FALSE]

\* A monitor that signals a first-seen package without recording its digest.
ShouldRestartService_ForgetsFirstSeen(zip, ledger, path, firstTime, now) ==
    IF zip = 0 \/ GetFileSHA256(zip) = NoDigest
    THEN [ret |-> FALSE, ledger |-> ledger, firstTime |-> firstTime]
    ELSE LET currentHash == GetFileSHA256(zip)
             storedHash == GetStoredFileHash(ledger, path)
             l1 == LedgerAfterGet(ledger)
         IN  IF storedHash = NoDigest /\ firstTime
             THEN [ret |-> TRUE, ledger |-> l1, firstTime |-> FALSE]
             ELSE IF storedHash # NoDigest /\ storedHash # currentHash
             THEN [ret |-> TRUE,
                   ledger |-> StoreFileHash(l1, path, currentHash, now),
                   firstTime |-> firstTime]
             ELSE [ret |-> FALSE, ledger |-> l1, firstTime |-> firstTime]

\* ShouldRestartService: the answer, the ledger and the latch it leaves.
ShouldRestartService(zip, ledger, path, firstTime, now) ==
    IF zip = 0 \/ GetFileSHA256(zip) = NoDigest
    THEN [ret |-> FALSE, ledger |-> ledger, firstTime |-> firstTime]
    ELSE LET currentHash == GetFileSHA256(zip)
             storedHash == GetStoredFileHash(ledger, path)
             l1 == LedgerAfterGet(ledger)
         IN  IF storedHash = NoDigest /\ firstTime
             THEN [ret |-> TRUE,
                   ledger |-> StoreFileHash(l1, path, currentHash, now),
                   firstTime |-> FALSE]
             ELSE IF storedHash # NoDigest /\ storedHash # currentHash
             THEN [ret |-> TRUE,
                   ledger |-> StoreFileHash(l1, path, currentHash, now),
                   firstTime |-> firstTime]
             ELSE [ret |-> FALSE, ledger |-> l1, firstTime |-> firstTime]

\* ConfigFileMonitor::InitialInstall stores the digest whether or not one is stored.
MonitorInitialInstall(zip, ledger, path, now) ==
    IF zip = 0 \/ GetFileSHA256(zip) = NoDigest THEN [ret |-> FALSE, ledger |-> ledger]
    ELSE [ret |-> TRUE, ledger |-> StoreFileHash(ledger, path, GetFileSHA256(zip), now)]

\* A check that takes a file without a ledger entry for unchanged.
IsFileUnchanged_TrustsMissingEntry(content, ledger, path) ==
    /\ content # 0
    /\ \/ GetStoredFileHash(ledger, path) = NoDigest
       \/ GetFileSHA256(content) = GetStoredFileHash(ledger, path)

\* UpdateManager::IsFileUnchanged on an installed executable.
IsFileUnchanged(content, ledger, path) ==
    /\ content # 0
    /\ GetFileSHA256(content) # NoDigest
    /\ ledger.exists
    /\ GetStoredFileHash(ledger, path) # NoDigest
    /\ GetFileSHA256(content) = GetStoredFileHash(ledger, path)

----------------------------------------------------------------------------
(* UpdateManager::PerformUpdate.  The outcomes of resolving the URL, of the *)
(* download and of the extraction are inputs.                               *)

FetchOutcomes == {"nourl", "dlfail", "ok"}

\* The disturbances behind the step a fetch ended at.
FetchCost(step) == IF step \in {"nourl", "dlfail", "extractfail"} THEN 1 ELSE 0

\* An update step that goes on to the extraction although the fetch failed.
PerformUpdate_IgnoresFetchFailure(fetch, extractOk, now) ==
    LET l0 == MonitorInitialize(zipFile, Aged(zipLedger), UpgradeDownloadPath, now)
    IN  IF fetch # "ok"
        THEN [ret |-> TRUE, step |-> fetch, zip |-> zipFile, ledger |-> l0,
              ws |-> ExtractArchiveToFolder(Packages[remote], extracted),
              seen |-> NoDigest, changed |-> FALSE]
        ELSE
        LET zip1 == remote
            seen == GetStoredFileHash(l0, UpgradeDownloadPath)
            m == ShouldRestartService(zip1, l0, UpgradeDownloadPath, TRUE, now)
            exe1Changed == ~IsFileUnchanged(target[1], svcLedger, Service1TargetPath)
            exe2Changed == ~IsFileUnchanged(target[2], svcLedger, Service2TargetPath)
            shouldExtract == m.ret \/ exe1Changed \/ exe2Changed
        IN  IF ~shouldExtract
            THEN [ret |-> FALSE, step |-> "unchanged", zip |-> 0, ledger |-> m.ledger,
                  ws |-> extracted, seen |-> seen,
                  changed |-> m.ret]
            ELSE IF ~extractOk
            THEN [ret |-> FALSE, step |-> "extractfail", zip |-> zip1,
                  ledger |-> m.ledger, ws |-> extracted, seen |-> seen,
                  changed |-> m.ret]
            ELSE [ret |-> TRUE, step |-> "extracted", zip |-> 0, ledger |-> m.ledger,
                  ws |-> ExtractArchiveToFolder(Packages[zip1], extracted),
                  seen |-> seen, changed |-> m.ret]

PerformUpdate(fetch, extractOk, now) ==
    LET l0 == MonitorInitialize(zipFile, Aged(zipLedger), UpgradeDownloadPath, now)
    IN  IF fetch # "ok"
        THEN [ret |-> FALSE, step |-> fetch, zip |-> zipFile, ledger |-> l0,
              ws |-> extracted, seen |-> NoDigest, changed |-> FALSE]
        ELSE
        LET zip1 == remote
            seen == GetStoredFileHash(l0, UpgradeDownloadPath)
            m == ShouldRestartService(zip1, l0, UpgradeDownloadPath, TRUE, now)
            exe1Changed == ~IsFileUnchanged(target[1], svcLedger, Service1TargetPath)
            exe2Changed == ~IsFileUnchanged(target[2], svcLedger, Service2TargetPath)
            shouldExtract == m.ret \/ exe1Changed \/ exe2Changed
        IN  IF ~shouldExtract
            THEN [ret |-> FALSE, step |-> "unchanged", zip |-> 0, ledger |-> m.ledger,
                  ws |-> extracted, seen |-> seen,
                  changed |-> m.ret]
            ELSE IF ~extractOk
            THEN [ret |-> FALSE, step |-> "extractfail", zip |-> zip1,
                  ledger |-> m.ledger, ws |-> extracted, seen |-> seen,
                  changed |-> m.ret]
            ELSE [ret |-> TRUE, step |-> "extracted", zip |-> 0, ledger |-> m.ledger,
                  ws |-> ExtractArchiveToFolder(Packages[zip1], extracted),
                  seen |-> seen, changed |-> m.ret]

----------------------------------------------------------------------------
(* What a run did to one service.  ops is the set of steps taken.           *)

NoTrace == [path |-> "none", ret |-> FALSE, ops |-> {}, stopPolls |-> 0, starts |-> 0]

\* The three delays the service controller is tried with: at once, at the
\* last permitted poll, and never within the budget.
StopDelays == {0, StopRetries, MaxStopDelay}
StartNeeds == {1, StartAttempts, MaxStartNeeds}
RollbackPolls == {1, RollbackAttempts, MaxRollbackPolls}
CopyOutcomes == {"ok", "fail", "partial"}
ProcessOutcomes == {"nolaunch", "noeffect", "ok"}

\* Every answer of the operating system other than the prompt, successful
\* one counts as one disturbance.
Disturbed(answer, prompt) == IF answer = prompt THEN 0 ELSE 1

\* An outcome: the return value, the files and service record of the service
\* afterwards, the steps taken and the number of disturbances it took.
Outcome(ret, tgt, bak, inst, run, staged, ledger, ops, polls, starts, cost) ==
    [ret |-> ret, target |-> tgt, backup |-> bak, installed |-> inst,
     running |-> run, staged |-> staged, ledger |-> ledger,
     ops |-> ops, stopPolls |-> polls, starts |-> starts, cost |-> cost]

----------------------------------------------------------------------------
(* ServiceRestartManager *)

\* A rollback that reports the restore but leaves the installed file as the
\* failed copy left it.
Rollback_WithoutRestore(wasServiceRunning, tgt, bak) ==
    IF bak = 0 THEN {<<tgt, FALSE, {"rollback", "no_backup"}, 0>>}
    ELSE {<<tgt, wasServiceRunning, {"rollback", "restore"}
                 \cup (IF wasServiceRunning THEN {"rb_start", "rb_running"} ELSE {}),
            0>>}

\* rollback(wasServiceRunning) with the installed file tgt and the backup bak.
\* Yields the set of <<installed file, running, steps, disturbances>> it can
\* end in.
Rollback(wasServiceRunning, tgt, bak) ==
    IF bak = 0 THEN {<<tgt, FALSE, {"rollback", "no_backup"}, 0>>}
    ELSE {<<tgt, FALSE, {"rollback", "restore_failed"}, 1>>}
         \cup
         (IF wasServiceRunning
          THEN {<<bak, p <= RollbackAttempts,
                  {"rollback", "restore", "rb_start"}
                  \cup (IF p <= RollbackAttempts THEN {"rb_running"} ELSE {}),
                  Disturbed(p, 1)>>
                : p \in RollbackPolls}
          ELSE {<<bak, FALSE, {"rollback", "restore"}, 0>>})

\* A start loop that allows one attempt more.
StartAndVerify_OneMoreAttempt(s, wasServiceRunning, tgt, bak, ops, polls, cost) ==
    UNION {
        IF n <= StartAttempts + 1
        THEN {Outcome(TRUE, tgt, 0, TRUE, TRUE, extracted.exe[s], svcLedger,
                      ops \cup {"start", "verified", "commit"}, polls, n,
                      cost + Disturbed(n, 1))}
        ELSE {Outcome(FALSE, r[1], bak, TRUE, r[2], extracted.exe[s], svcLedger,
                      ops \cup {"start"} \cup r[3], polls, StartAttempts + 1,
                      cost + 1 + r[4])
              : r \in Rollback(wasServiceRunning, tgt, bak)}
        : n \in StartNeeds }

\* The start loop after a successful copy.
StartAndVerify(s, wasServiceRunning, tgt, bak, ops, polls, cost) ==
    UNION {
        IF n <= StartAttempts
        THEN {Outcome(TRUE, tgt, 0, TRUE, TRUE, extracted.exe[s], svcLedger,
                      ops \cup {"start", "verified", "commit"}, polls, n,
                      cost + Disturbed(n, 1))}
        ELSE {Outcome(FALSE, r[1], bak, TRUE, r[2], extracted.exe[s], svcLedger,
                      ops \cup {"start"} \cup r[3], polls, StartAttempts,
                      cost + 1 + r[4])
              : r \in Rollback(wasServiceRunning, tgt, bak)}
        : n \in StartNeeds }

\* The copy of the new executable over the installed path, and what follows.
Replace(s, new, wasServiceRunning, bak, ops, polls, cost) ==
    UNION {
        IF c = "ok"
        THEN StartAndVerify(s, wasServiceRunning, new, bak, ops \cup {"replace"},
                            polls, cost)
        ELSE {Outcome(FALSE, r[1], bak, TRUE, r[2], extracted.exe[s], svcLedger,
                      ops \cup {"replace_failed"} \cup r[3]
                          \cup (IF c = "partial" THEN {"partial_copy"} ELSE {}),
                      polls, 0, cost + 1 + r[4])
              : r \in Rollback(wasServiceRunning,
                               IF c = "partial" THEN Garbage ELSE target[s], bak)}
        : c \in CopyOutcomes }

\* The backup of the installed executable, and what follows.
BackUp(s, new, wasServiceRunning, ops, polls, cost) ==
    IF target[s] = 0
    THEN Replace(s, new, wasServiceRunning, backup[s], ops, polls, cost)
    ELSE {Outcome(FALSE, target[s], backup[s], TRUE, FALSE, extracted.exe[s], svcLedger,
                  ops \cup {"backup_failed"}, polls, 0, cost + 1)}
         \cup Replace(s, new, wasServiceRunning, target[s], ops \cup {"backup"},
                      polls, cost)

\* A protocol that goes on to the backup although the service did not stop.
UpdateAndRestartService_IgnoresStopTimeout(s, new) ==
    IF ~installed[s] \/ new = 0
    THEN {Outcome(FALSE, target[s], backup[s], installed[s], svcRunning[s],
                  extracted.exe[s], svcLedger, {"not_installed"}, 0, 0, 0)}
    ELSE IF ~svcRunning[s] THEN BackUp(s, new, FALSE, {}, 0, 0)
    ELSE UNION {
            IF d > StopRetries
            THEN BackUp(s, new, TRUE, {"stop", "stop_timeout"}, StopRetries, 1)
            ELSE BackUp(s, new, TRUE, {"stop", "stopped"}, d, Disturbed(d, 0))
            : d \in StopDelays }

UpdateAndRestartService(s, new) ==
    LET wasServiceRunning == svcRunning[s]
        unchanged(ops, polls, cost) ==
            Outcome(FALSE, target[s], backup[s], installed[s], svcRunning[s],
                    extracted.exe[s], svcLedger, ops, polls, 0, cost)
    IN  IF ~installed[s] THEN {unchanged({"not_installed"}, 0, 0)}
        ELSE IF new = 0 THEN {unchanged({"no_new_file"}, 0, 0)}
        ELSE IF ~wasServiceRunning THEN BackUp(s, new, FALSE, {}, 0, 0)
        ELSE UNION {
                IF d > StopRetries
                THEN {unchanged({"stop", "stop_timeout"}, StopRetries, 1)}
                ELSE BackUp(s, new, TRUE, {"stop", "stopped"}, d, Disturbed(d, 0))
                : d \in StopDelays }

----------------------------------------------------------------------------
(* ServiceManager::UpdateService, the full-reinstall path.  The uninstall   *)
(* and install commands are processes of the staged executable: a process   *)
(* either cannot be launched, or runs without effect, or does its work.     *)
(* InstallService and UninstallService report only whether it was launched. *)

\* DeleteExeFile and the recording of the installed executable's digest.
AfterInstall(s, tgt, inst, run, ledger, ops, now, cost) ==
    LET exeHash == GetFileSHA256(tgt)
        l1 == IF exeHash # NoDigest
              THEN StoreFileHash(ledger, TargetPath(s), exeHash, now)
              ELSE ledger
    IN  Outcome(TRUE, tgt, backup[s], inst, run, 0, l1,
                ops \cup {"delete_staged"}
                    \cup (IF exeHash # NoDigest THEN {"store"} ELSE {}), 0, 0, cost)

InstallService(s, new, inst, run, ledger, ops, now, cost) ==
    LET issued == ops \cup (IF inst THEN {"install_while_registered"} ELSE {})
    IN  { IF i = "nolaunch"
          THEN Outcome(FALSE, target[s], backup[s], inst, run, new, ledger,
                       issued \cup {"install_failed"}, 0, 0, cost + 1)
          ELSE IF i = "noeffect"
          THEN AfterInstall(s, target[s], inst, run, ledger,
                            issued \cup {"install"}, now, cost + 1)
          ELSE AfterInstall(s, new, TRUE, TRUE, ledger,
                            issued \cup {"install", "registered"}, now, cost)
          : i \in ProcessOutcomes }

\* An update that does not look at the registration again after the uninstall.
UpdateService_WithoutRecheck(s, new, ledger, now) ==
    LET abort(ops, cost) ==
            Outcome(FALSE, target[s], backup[s], installed[s], svcRunning[s],
                    new, ledger, ops, 0, 0, cost)
    IN  IF installed[s]
        THEN UNION {
                IF u = "nolaunch" THEN {abort({"uninstall_failed"}, 1)}
                ELSE IF new = 0 THEN {abort({"uninstall", "no_new_file"}, 0)}
                ELSE InstallService(s, new, u = "noeffect",
                                    u = "noeffect" /\ svcRunning[s], ledger,
                                    {"uninstall"}, now, Disturbed(u, "ok"))
                : u \in ProcessOutcomes }
        ELSE IF new = 0 THEN {abort({"no_new_file"}, 0)}
        ELSE InstallService(s, new, FALSE, FALSE, ledger, {}, now, 0)

UpdateService(s, new, ledger, now) ==
    LET abort(ops, cost) ==
            Outcome(FALSE, target[s], backup[s], installed[s], svcRunning[s],
                    new, ledger, ops, 0, 0, cost)
    IN  IF installed[s]
        THEN UNION {
                IF u = "nolaunch" THEN {abort({"uninstall_failed"}, 1)}
                ELSE IF u = "noeffect" THEN {abort({"uninstall", "still_installed"}, 1)}
                ELSE IF new = 0 THEN {Outcome(FALSE, target[s], backup[s], FALSE, FALSE,
                                              new, ledger, {"uninstall", "no_new_file"},
                                              0, 0, 0)}
                ELSE InstallService(s, new, FALSE, FALSE, ledger, {"uninstall"}, now, 0)
                : u \in ProcessOutcomes }
        ELSE IF new = 0 THEN {abort({"no_new_file"}, 0)}
        ELSE InstallService(s, new, FALSE, FALSE, ledger, {}, now, 0)

----------------------------------------------------------------------------
(* FileHasher::CheckAndUpdateFileHash on an installed executable (original) *)
(* and the staged one (new): the answer and the ledger it leaves.           *)

\* A comparison that does not stop at equal digests of the two files.
CheckAndUpdateFileHash_IgnoresEquality(original, new, ledger, path, now) ==
    IF original = 0 \/ new = 0 THEN [ret |-> FALSE, ledger |-> ledger]
    ELSE [ret |-> TRUE, ledger |-> ledger]

\* A comparison that takes a ledger entry holding the new file's digest for
\* proof that the new file is installed.
CheckAndUpdateFileHash_TrustsLedger(original, new, ledger, path, now) ==
    LET originalHash == GetFileSHA256(original)
        newHash == GetFileSHA256(new)
        storedHash == GetStoredFileHash(ledger, path)
        stored == StoreFileHash(ledger, path, newHash, now)
    IN  IF original = 0 \/ originalHash = NoDigest THEN [ret |-> FALSE, ledger |-> ledger]
        ELSE IF new = 0 \/ newHash = NoDigest THEN [ret |-> FALSE, ledger |-> ledger]
        ELSE IF originalHash = newHash
        THEN [ret |-> FALSE, ledger |-> IF ~ledger.exists THEN stored ELSE ledger]
        ELSE IF ~ledger.exists THEN [ret |-> TRUE, ledger |-> stored]
        ELSE IF storedHash = NoDigest THEN [ret |-> TRUE, ledger |-> stored]
        ELSE IF storedHash = newHash THEN [ret |-> FALSE, ledger |-> ledger]
        ELSE [ret |-> TRUE, ledger |-> stored]

CheckAndUpdateFileHash(original, new, ledger, path, now) ==
    LET originalHash == GetFileSHA256(original)
        newHash == GetFileSHA256(new)
        storedHash == GetStoredFileHash(ledger, path)
        stored == StoreFileHash(ledger, path, newHash, now)
    IN  IF original = 0 \/ originalHash = NoDigest THEN [ret |-> FALSE, ledger |-> ledger]
        ELSE IF new = 0 \/ newHash = NoDigest THEN [ret |-> FALSE, ledger |-> ledger]
        ELSE IF originalHash = newHash
        THEN [ret |-> FALSE, ledger |-> IF ~ledger.exists THEN stored ELSE ledger]
        ELSE IF ~ledger.exists THEN [ret |-> TRUE, ledger |-> stored]
        ELSE IF storedHash = NoDigest THEN [ret |-> TRUE, ledger |-> stored]
        ELSE IF storedHash = newHash /\ originalHash = storedHash
        THEN [ret |-> FALSE, ledger |-> ledger]
        ELSE IF storedHash = newHash /\ originalHash # storedHash
        THEN [ret |-> TRUE, ledger |-> ledger]
        ELSE [ret |-> TRUE, ledger |-> stored]

----------------------------------------------------------------------------
(* ServiceUpgradeManager::CompareAndUpdateService: the outcomes and the     *)
(* path taken.                                                              *)

Untouched(s, ret, ledger, ops) ==
    Outcome(ret, target[s], backup[s], installed[s], svcRunning[s],
            extracted.exe[s], ledger, ops, 0, 0, 0)

\* A pass that leaves the second service alone once the first has failed.
CompareAndUpdateService_StopsAfterFailure(s, fullReinstall, now) ==
    IF s = 2 /\ trace[1].path \in {"restart", "reinstall"} /\ ~trace[1].ret
    THEN {<<Untouched(s, FALSE, svcLedger, {}), "none">>}
    ELSE
        LET new == extracted.exe[s]
            chk == CheckAndUpdateFileHash(target[s], new, svcLedger, TargetPath(s), now)
        IN  IF new = 0 THEN {<<Untouched(s, FALSE, svcLedger, {}), "skipped">>}
            ELSE IF target[s] = 0
            THEN IF fullReinstall
                 THEN {<<o, "reinstall">> : o \in UpdateService(s, new, svcLedger, now)}
                 ELSE {<<Untouched(s, TRUE, svcLedger, {}), "abort">>}
            ELSE IF ~chk.ret
            THEN {<<Untouched(s, FALSE, chk.ledger, {}), "unchanged">>}
            ELSE IF fullReinstall
            THEN {<<o, "reinstall">> : o \in UpdateService(s, new, chk.ledger, now)}
            ELSE {<<[o EXCEPT !.ledger = chk.ledger], "restart">>
                  : o \in UpdateAndRestartService(s, new)}

CompareAndUpdateService(s, fullReinstall, now) ==
    LET new == extracted.exe[s]
        chk == CheckAndUpdateFileHash(target[s], new, svcLedger, TargetPath(s), now)
    IN  IF new = 0 THEN {<<Untouched(s, FALSE, svcLedger, {}), "skipped">>}
        ELSE IF target[s] = 0
        THEN IF fullReinstall
             THEN {<<o, "reinstall">> : o \in UpdateService(s, new, svcLedger, now)}
             ELSE {<<Untouched(s, TRUE, svcLedger, {}), "abort">>}
        ELSE IF ~chk.ret
        THEN {<<Untouched(s, FALSE, chk.ledger, {}), "unchanged">>}
        ELSE IF fullReinstall
        THEN {<<o, "reinstall">> : o \in UpdateService(s, new, chk.ledger, now)}
        ELSE {<<[o EXCEPT !.ledger = chk.ledger], "restart">>
              : o \in UpdateAndRestartService(s, new)}

----------------------------------------------------------------------------
(* InitialInstallManager *)

AreServicesInstalled == \A s \in Services : installed[s]

\* A reader for which a disabling flag wins over missing services.
ShouldPerformInitialInstall_ObeysDisablingFlag(doc) ==
    IF doc = "absent" THEN ~AreServicesInstalled ELSE doc = "true"

ShouldPerformInitialInstall(doc) ==
    IF doc = "absent" THEN ~AreServicesInstalled
    ELSE IF doc \in {"unopenable", "unparseable", "badservice"} THEN FALSE
    ELSE LET enableInstall == (doc = "true")
         IN  IF ~enableInstall /\ ~AreServicesInstalled THEN TRUE ELSE enableInstall

\* UpdateManager::PerformInitialInstallation: fetch, record the digest, extract.
FetchForInstall(fetch, extractOk, now) ==
    LET l0 == MonitorInitialize(zipFile, Aged(zipLedger), ZipFilePath, now)
    IN  IF fetch # "ok"
        THEN [ret |-> FALSE, step |-> fetch, zip |-> zipFile, ledger |-> l0,
              ws |-> extracted]
        ELSE
        LET m == MonitorInitialInstall(remote, l0, ZipFilePath, now)
        IN  IF ~extractOk
            THEN [ret |-> FALSE, step |-> "extractfail", zip |-> remote,
                  ledger |-> m.ledger, ws |-> extracted]
            ELSE [ret |-> TRUE, step |-> "extracted", zip |-> 0, ledger |-> m.ledger,
                  ws |-> ExtractArchiveToFolder(Packages[remote], extracted)]

\* InstallServiceIfNeeded
InstallServiceIfNeeded(s, now) ==
    IF extracted.exe[s] = 0 THEN {<<Untouched(s, FALSE, svcLedger, {}), "skipped">>}
    ELSE {<<o, "reinstall">> : o \in UpdateService(s, extracted.exe[s], svcLedger, now)}

----------------------------------------------------------------------------
(* The state machine. *)

Snapshot == [target |-> target, svcRunning |-> svcRunning, installed |-> installed,
             backup |-> backup, zipLedger |-> Aged(zipLedger),
             svcLedger |-> Aged(svcLedger), zipFile |-> zipFile]

\* What the fetch step of a run did: the kind of run, the step it ended at,
\* the package it downloaded, the digest the package ledger held for it when
\* it was compared, the package the preceding upgrade pass downloaded, and
\* the number of upgrade passes of this process, counted up to two, in
\* which the monitor reported a package as changed
\* because the ledger held no digest for it.
NoFetch == [kind |-> "none", step |-> "none", pkg |-> 0, seen |-> NoDigest, prev |-> 0,
            forced |-> 0]

\* No component has been exercised on its own.
NoCall == [kind |-> "none", file |-> 0, other |-> 0, path |-> <<>>,
           found |-> "none", stored |-> NoDigest, current |-> NoDigest,
           doc |-> "absent", ret |-> FALSE]
\* Two threads of the process and the FileHasher objects they may call; every
\* object has a mutex of its own.
Threads == {1, 2}
Hashers == {1, 2}
NoPut == [pc |-> "idle", hasher |-> 0, path |-> <<>>, hash |-> NoDigest, j |-> <<>>]
\* No ServiceRestartManager is being followed step by step.
NoPath == <<>>
NoRestart == [pc |-> "none", m_targetPath |-> NoPath, files |-> <<>>, scm |-> "none",
              wasServiceRunning |-> FALSE, retries |-> 0, attempt |-> 0,
              stopPolls |-> 0, starts |-> 0, rbPolls |-> 0,
              m_backupPath |-> NoPath, wrote |-> NoPath, restoredFrom |-> NoPath,
              rbCopy |-> "none", copiedWhile |-> {}, ret |-> FALSE]
NoService == [main |-> "none", sched |-> "none", handler |-> "idle",
              status |-> "START_PENDING", reportedBy |-> "none",
              stopService |-> FALSE, running |-> FALSE,
              installRan |-> FALSE, installResult |-> FALSE, passes |-> 0]
NoUnit == [file |-> 0, ledger |-> MissingLedger(ZipKeys), healed |-> "none",
           rs |-> NoRestart, svc |-> NoService,
           put |-> [t \in Threads |-> NoPut], m_mutex |-> [h \in Hashers |-> 0],
           live |-> FALSE,
           firstTime |-> FALSE, bare |-> FALSE, existed |-> FALSE,
           modified |-> FALSE, calls |-> 0, trues |-> 0, asked |-> NoCall]

\* The agent has not been started yet on the host.
AgentDown ==
    /\ zipFile = 0
    /\ extracted = EmptyWorkspace
    /\ backup = [s \in Services |-> 0]
    /\ zipLedger = MissingLedger(ZipKeys)
    /\ svcLedger = MissingLedger(SvcKeys)
    /\ pc = "down"
    /\ idx = 1
    /\ running = FALSE
    /\ m_fullReinstall = FALSE
    /\ updatePerformed = FALSE
    /\ fetched = NoFetch
    /\ trace = [s \in Services |-> NoTrace]
    /\ result = FALSE
    /\ faults = 0
    /\ beat = 0

\* The agent is deployed on a host on which the managed services are either
\* not present (v = 0) or were installed beforehand at some release and run.
Init ==
    /\ remote \in PackageIds
    /\ \E v \in {0, 1, 2} :
          /\ target = [s \in Services |-> v]
          /\ installed = [s \in Services |-> v # 0]
          /\ svcRunning = [s \in Services |-> v # 0]
    /\ AgentDown
    /\ pre = Snapshot
    /\ unit = NoUnit

\* The remote store replaces the published package by a later release.
RemotePublish ==
    /\ \E p \in PackageIds : p > remote /\ remote' = p
    /\ UNCHANGED <<unit, beat, zipFile, extracted, target, backup, installed, svcRunning,
                   zipLedger, svcLedger, pc, idx, running, m_fullReinstall,
                   updatePerformed, pre, fetched, trace, result, faults>>

\* Applies the outcome o of an operation on service s.
Apply(s, o, path) ==
    /\ target' = [target EXCEPT ![s] = o.target]
    /\ backup' = [backup EXCEPT ![s] = o.backup]
    /\ installed' = [installed EXCEPT ![s] = o.installed]
    /\ svcRunning' = [svcRunning EXCEPT ![s] = o.running]
    /\ extracted' = [extracted EXCEPT !.exe[s] = o.staged]
    /\ svcLedger' = o.ledger
    /\ trace' = [trace EXCEPT ![s] = [path |-> path, ret |-> o.ret, ops |-> o.ops,
                                      stopPolls |-> o.stopPolls, starts |-> o.starts]]
    /\ faults + o.cost <= MaxFaults
    /\ faults' = faults + o.cost
    /\ updatePerformed' = (updatePerformed \/ o.ret)

\* MainService::StartNexusManager up to the point where the services are
\* installed one by one: the fetch and the install decision.
StartNexusManager ==
    /\ pc = "down"
    /\ pre' = Snapshot
    /\ trace' = [s \in Services |-> NoTrace]
    /\ \E fetch \in FetchOutcomes, extractOk \in BOOLEAN :
          LET f == FetchForInstall(fetch, extractOk, Now)
              go == f.ret /\ ShouldPerformInitialInstall(f.ws.inst)
          IN  /\ faults + FetchCost(f.step) <= MaxFaults
              /\ faults' = faults + FetchCost(f.step)
              /\ zipFile' = f.zip
              /\ zipLedger' = f.ledger
              /\ fetched' = [kind |-> "install", step |-> f.step,
                             pkg |-> IF fetch = "ok" THEN remote ELSE 0,
                             seen |-> NoDigest, prev |-> 0, forced |-> 0]
              /\ extracted' = IF f.ret /\ ~go THEN CleanExtractedFolder(f.ws) ELSE f.ws
              /\ svcLedger' = IF f.ret /\ ~go THEN LedgerAfterClean(Aged(svcLedger))
                             ELSE Aged(svcLedger)
              /\ pc' = IF go THEN "install" ELSE "idle"
              /\ running' = ~go
              /\ result' = IF go THEN result ELSE FALSE
    /\ idx' = 1
    /\ updatePerformed' = FALSE
    /\ UNCHANGED <<unit, beat, remote, target, backup, installed, svcRunning, m_fullReinstall>>

\* One iteration of the loop of InitialInstallManager::PerformInitialInstallation.
InstallNext ==
    /\ pc = "install"
    /\ idx \in Services
    /\ \E r \in InstallServiceIfNeeded(idx, Now) : Apply(idx, r[1], r[2])
    /\ idx' = idx + 1
    /\ UNCHANGED <<unit, beat, remote, zipFile, zipLedger, pc, running,
                   m_fullReinstall, pre, fetched, result>>

\* The end of PerformInitialInstallation; the scheduler thread is started.
FinishInstall ==
    /\ pc = "install"
    /\ idx \notin Services
    /\ extracted' = IF updatePerformed THEN CleanExtractedFolder(extracted) ELSE extracted
    /\ svcLedger' = IF updatePerformed THEN LedgerAfterClean(svcLedger) ELSE svcLedger
    /\ result' = updatePerformed
    /\ pc' = "idle"
    /\ running' = TRUE
    /\ idx' = 1
    /\ updatePerformed' = FALSE
    /\ UNCHANGED <<unit, beat, remote, zipFile, target, backup, installed, svcRunning,
                   zipLedger, m_fullReinstall, pre, fetched, trace, faults>>

\* A matching tick: PerformServiceUpgrade up to the loop over the services.

\* A scheduler that runs the task of a matching tick on a thread of its own.
TickDue_OnOwnThread == pc \in {"idle", "upgrade"} /\ running

\* The scheduler loop is at cron.tick() with the flag set: the task of a
\* matching tick is called on the scheduler thread itself.
TickDue == pc = "idle" /\ running

Tick ==
    /\ TickDue
    /\ pre' = Snapshot
    /\ trace' = [s \in Services |-> NoTrace]
    /\ \E fetch \in FetchOutcomes, extractOk \in BOOLEAN :
          LET f == PerformUpdate(fetch, extractOk, Now)
          IN  /\ faults + FetchCost(f.step) <= MaxFaults
              /\ faults' = faults + FetchCost(f.step)
              /\ zipFile' = f.zip
              /\ zipLedger' = f.ledger
              /\ extracted' = f.ws
              /\ fetched' = [kind |-> "upgrade", step |-> f.step,
                             pkg |-> IF fetch = "ok" THEN remote ELSE 0,
                             seen |-> f.seen,
                             prev |-> IF fetched.kind = "upgrade" THEN fetched.pkg
                                      ELSE 0,
                             forced |-> IF f.changed /\ f.seen = NoDigest
                                        THEN Min(fetched.forced + 1, 2)
                                        ELSE fetched.forced]
              /\ pc' = IF f.ret THEN "upgrade" ELSE "idle"
              /\ result' = IF f.ret THEN result ELSE FALSE
              /\ m_fullReinstall' = (f.ret /\ NeedsFullReinstall(f.ws))
    /\ idx' = 1
    /\ updatePerformed' = FALSE
    /\ svcLedger' = Aged(svcLedger)
    /\ beat' = 1 - beat
    /\ UNCHANGED <<unit, remote, target, backup, installed, svcRunning, running>>

\* One iteration of the loop of ServiceUpgradeManager::PerformUpgrade.
UpgradeNext ==
    /\ pc = "upgrade"
    /\ idx \in Services
    /\ \E r \in CompareAndUpdateService(idx, m_fullReinstall, Now) :
          Apply(idx, r[1], r[2])
    /\ idx' = idx + 1
    /\ UNCHANGED <<unit, beat, remote, zipFile, zipLedger, pc, running,
                   m_fullReinstall, pre, fetched, result>>

\* The end of PerformUpgrade.
FinishUpgrade ==
    /\ pc = "upgrade"
    /\ idx \notin Services
    /\ extracted' = IF updatePerformed THEN CleanExtractedFolder(extracted) ELSE extracted
    /\ svcLedger' = IF updatePerformed THEN LedgerAfterClean(svcLedger) ELSE svcLedger
    /\ result' = updatePerformed
    /\ pc' = "idle"
    /\ idx' = 1
    /\ m_fullReinstall' = FALSE
    /\ updatePerformed' = FALSE
    /\ UNCHANGED <<unit, beat, remote, zipFile, target, backup, installed, svcRunning,
                   zipLedger, running, pre, fetched, trace, faults>>

\* MainService::StopNexusManager raises the stop signal.
StopNexusManager ==
    /\ running
    /\ running' = FALSE
    /\ UNCHANGED <<unit, beat, remote, zipFile, extracted, target, backup, installed,
                   svcRunning, zipLedger, svcLedger, pc, idx, m_fullReinstall,
                   updatePerformed, pre, fetched, trace, result, faults>>

\* The scheduler loop observes the flag and exits; the join returns.
SchedulerExit ==
    /\ pc = "idle"
    /\ ~running
    /\ pc' = "down"
    /\ UNCHANGED <<unit, beat, remote, zipFile, extracted, target, backup, installed,
                   svcRunning, zipLedger, svcLedger, idx, running,
                   m_fullReinstall, updatePerformed, pre, fetched, trace, result,
                   faults>>

Next ==
    \/ RemotePublish
    \/ StartNexusManager
    \/ InstallNext
    \/ FinishInstall
    \/ Tick
    \/ UpgradeNext
    \/ FinishUpgrade
    \/ StopNexusManager
    \/ SchedulerExit

Spec == Init /\ [][Next]_vars

\* The agent on a host on which every system call succeeds at once.
Undisturbed(A) == A /\ faults' = faults

ReliableNext ==
    \/ RemotePublish
    \/ Undisturbed(StartNexusManager)
    \/ Undisturbed(InstallNext)
    \/ FinishInstall
    \/ Undisturbed(Tick)
    \/ Undisturbed(UpgradeNext)
    \/ FinishUpgrade
    \/ StopNexusManager
    \/ SchedulerExit

\* On such a host the scheduler thread keeps ticking and a run that has begun
\* goes on to its end.  Publishing, stopping and starting the agent are up to
\* the environment.
FairSpec ==
    /\ Init
    /\ [][ReliableNext]_vars
    /\ WF_vars(Undisturbed(Tick))
    /\ WF_vars(Undisturbed(UpgradeNext))
    /\ WF_vars(FinishUpgrade)
    /\ WF_vars(Undisturbed(InstallNext))
    /\ WF_vars(FinishInstall)
    /\ WF_vars(SchedulerExit)

----------------------------------------------------------------------------
(* The agent as a Windows service process.  A stop control can arrive at    *)
(* any moment: ServiceControlHandler reports SERVICE_STOPPED at once, so    *)
(* the control dispatcher may return and main() end the process while the   *)
(* scheduler thread is still in a pass.  An upgrade pass can also end in an *)
(* exception: the service-control manager cannot be opened when the         *)
(* restart-only protocol of a service begins.                               *)

\* An exception that nothing catches ends the scheduler thread.
CaughtException_EndsLoop == [pc |-> "down", running |-> running]

\* Where the agent is after the catch block of PerformUpgrade: the pass has
\* returned false to the scheduler loop, which goes on.
CaughtException == [pc |-> "idle", running |-> running]

\* WindowsServiceManager's constructor throws at the start of
\* UpdateAndRestartService for the service at hand; CompareAndUpdateService
\* has compared the digests and does not catch; PerformUpgrade does.
PassThrows ==
    /\ pc = "upgrade"
    /\ idx \in Services
    /\ ~m_fullReinstall
    /\ extracted.exe[idx] # 0 /\ target[idx] # 0
    /\ LET chk == CheckAndUpdateFileHash(target[idx], extracted.exe[idx], svcLedger,
                                          TargetPath(idx), Now)
       IN  /\ chk.ret
           /\ svcLedger' = chk.ledger
    /\ faults + 1 <= MaxFaults
    /\ faults' = faults + 1
    /\ trace' = [trace EXCEPT ![idx] = [NoTrace EXCEPT !.path = "restart",
                                                        !.ops = {"exception"}]]
    /\ pc' = CaughtException.pc
    /\ running' = CaughtException.running
    /\ result' = FALSE
    /\ idx' = 1
    /\ m_fullReinstall' = FALSE
    /\ updatePerformed' = FALSE
    /\ UNCHANGED <<unit, beat, remote, zipFile, extracted, target, backup, installed,
                   svcRunning, zipLedger, pre, fetched>>

\* The process ends after the handler has reported SERVICE_STOPPED: every
\* thread stops where it is, the files stay as they are.  An early end of
\* the process counts as a disturbance.
ProcessExit ==
    /\ pc # "down"
    /\ faults + 1 <= MaxFaults
    /\ faults' = faults + 1
    /\ pc' = "down"
    /\ running' = FALSE
    /\ UNCHANGED <<unit, beat, remote, zipFile, extracted, target, backup, installed,
                   svcRunning, zipLedger, svcLedger, idx, m_fullReinstall,
                   updatePerformed, pre, fetched, trace, result>>

\* The service is started on a host on which both managed services are
\* installed and run.
LifeInit ==
    /\ remote \in PackageIds
    /\ target = [s \in Services |-> 1]
    /\ installed = [s \in Services |-> TRUE]
    /\ svcRunning = [s \in Services |-> TRUE]
    /\ AgentDown
    /\ pre = Snapshot
    /\ unit = NoUnit

LifeNext ==
    \/ RemotePublish
    \/ StartNexusManager
    \/ InstallNext
    \/ FinishInstall
    \/ Tick
    \/ UpgradeNext
    \/ PassThrows
    \/ FinishUpgrade
    \/ StopNexusManager
    \/ SchedulerExit
    \/ ProcessExit

LifeSpec == LifeInit /\ [][LifeNext]_vars

----------------------------------------------------------------------------
(* The components on their own.  A ConfigFileMonitor instance is created on *)
(* a file and a ledger and asked repeatedly while the file is rewritten;    *)
(* the change detectors and the two policy readers are applied to every     *)
(* file, ledger and policy document.  The agent stays down.                 *)

hostvars == <<remote, zipFile, extracted, target, backup, installed,
              svcRunning, zipLedger, svcLedger, pc, idx, running,
              m_fullReinstall, updatePerformed, pre, fetched, trace, result,
              faults, beat>>

\* The ledger files a component can find: none, an empty one, one holding
\* the digest of some content of the file.
UnitLedgers ==
    {MissingLedger(ZipKeys), ResetJsonFile(MissingLedger(ZipKeys))}
    \cup {StoreFileHash(MissingLedger(ZipKeys), ZipFilePath, GetFileSHA256(v), Old)
          : v \in 1..MaxVer}

\* The watched file: missing, unreadable, or holding some content.
UnitFiles == (0..MaxVer) \cup {Unreadable}

UnitInit ==
    /\ remote = 1
    /\ installed \in [Services -> BOOLEAN]
    /\ target = [s \in Services |-> IF installed[s] THEN 1 ELSE 0]
    /\ svcRunning = installed
    /\ AgentDown
    /\ pre = Snapshot
    /\ \E f \in UnitFiles, l \in UnitLedgers :
          unit = [NoUnit EXCEPT !.file = f, !.ledger = l]

\* ConfigFileMonitor::ConfigFileMonitor
CreateMonitor ==
    /\ ~unit.live
    /\ unit' = [unit EXCEPT
                   !.live = TRUE,
                   !.firstTime = TRUE,
                   !.ledger = MonitorInitialize(unit.file, unit.ledger, ZipFilePath, Old),
                   !.bare = (GetStoredFileHash(unit.ledger, ZipFilePath) = NoDigest),
                   !.existed = (GetFileSHA256(unit.file) # NoDigest),
                   !.modified = FALSE,
                   !.calls = 0,
                   !.trues = 0,
                   !.asked = NoCall]
    /\ UNCHANGED hostvars

\* Something rewrites or removes the watched file.
WriteFile ==
    /\ \E v \in UnitFiles :
          /\ v # unit.file
          /\ unit' = [unit EXCEPT !.file = v, !.modified = unit.live]
    /\ UNCHANGED hostvars

CallShouldRestartService ==
    /\ unit.live
    /\ unit.calls < MaxCalls
    /\ LET r == ShouldRestartService(unit.file, unit.ledger, ZipFilePath,
                                      unit.firstTime, Old)
       IN  unit' = [unit EXCEPT
                      !.ledger = r.ledger,
                      !.firstTime = r.firstTime,
                      !.calls = @ + 1,
                      !.trues = IF r.ret THEN @ + 1 ELSE @,
                      !.asked = [NoCall EXCEPT
                                   !.kind = "ShouldRestartService",
                                   !.file = unit.file,
                                   !.stored = GetStoredFileHash(unit.ledger, ZipFilePath),
                                   !.current = GetFileSHA256(unit.file),
                                   !.ret = r.ret]]
    /\ UNCHANGED hostvars

CallHasFileChanged ==
    /\ GetFileSHA256(unit.file) # NoDigest
    /\ unit' = [unit EXCEPT
                   !.ledger = LedgerAfterGet(unit.ledger),
                   !.asked = [NoCall EXCEPT
                                !.kind = "HasFileChanged",
                                !.file = unit.file,
                                !.stored = GetStoredFileHash(unit.ledger, ZipFilePath),
                                !.current = GetFileSHA256(unit.file),
                                !.ret = HasFileChanged(unit.ledger, ZipFilePath,
                                                       GetFileSHA256(unit.file))]]
    /\ UNCHANGED hostvars

CallIsFileUnchanged ==
    /\ unit' = [unit EXCEPT
                   !.asked = [NoCall EXCEPT
                                !.kind = "IsFileUnchanged",
                                !.file = unit.file,
                                !.stored = GetStoredFileHash(unit.ledger, ZipFilePath),
                                !.current = GetFileSHA256(unit.file),
                                !.ret = IsFileUnchanged(unit.file, unit.ledger,
                                                        ZipFilePath)]]
    /\ UNCHANGED hostvars

\* FileHasher::CheckAndUpdateFileHash with the watched file as the original
\* and a staged file of any kind as the new one.
CallCheckAndUpdateFileHash ==
    /\ \E new \in UnitFiles :
          LET r == CheckAndUpdateFileHash(unit.file, new, unit.ledger, ZipFilePath, Old)
          IN  unit' = [unit EXCEPT
                         !.ledger = r.ledger,
                         !.asked = [NoCall EXCEPT
                                      !.kind = "CheckAndUpdateFileHash",
                                      !.file = unit.file,
                                      !.other = new,
                                      !.stored = GetStoredFileHash(unit.ledger, ZipFilePath),
                                      !.current = GetFileSHA256(unit.file),
                                      !.ret = r.ret]]
    /\ UNCHANGED hostvars

CallShouldPerformInitialInstall ==
    /\ \E doc \in InstallPolicyDocs :
          unit' = [unit EXCEPT
                     !.asked = [NoCall EXCEPT !.kind = "ShouldPerformInitialInstall",
                                              !.doc = doc,
                                              !.ret = ShouldPerformInitialInstall(doc)]]
    /\ UNCHANGED hostvars

CallNeedsFullReinstall ==
    /\ \E doc \in PolicyDocs :
          unit' = [unit EXCEPT
                     !.asked = [NoCall EXCEPT
                                  !.kind = "NeedsFullReinstall",
                                  !.doc = doc,
                                  !.ret = NeedsFullReinstall(
                                              [EmptyWorkspace EXCEPT !.up = doc])]]
    /\ UNCHANGED hostvars

UnitNext ==
    \/ CreateMonitor
    \/ WriteFile
    \/ CallShouldRestartService
    \/ CallHasFileChanged
    \/ CallIsFileUnchanged
    \/ CallCheckAndUpdateFileHash
    \/ CallShouldPerformInitialInstall
    \/ CallNeedsFullReinstall

UnitSpec == UnitInit /\ [][UnitNext]_vars

----------------------------------------------------------------------------
(* The ledger on its own: one FileHasher on one ledger file, asked about    *)
(* several paths, while the file may be removed or overwritten with text    *)
(* that is not a JSON object.                                               *)

BrokenLedger(form, keys) ==
    [exists |-> TRUE, json |-> form, map |-> [k \in keys |-> NoEntry]]

\* What a call finds where the ledger file should be.
LedgerForm(ledger) == IF ledger.exists THEN ledger.json ELSE "missing"
BrokenForms == {"missing", "unparseable", "nonobject"}

DamagedLedgers ==
    {MissingLedger(LedgerKeys), BrokenLedger("unparseable", LedgerKeys),
     BrokenLedger("nonobject", LedgerKeys)}

LedgerInit ==
    /\ remote = 1
    /\ installed = [s \in Services |-> FALSE]
    /\ target = [s \in Services |-> 0]
    /\ svcRunning = installed
    /\ AgentDown
    /\ pre = Snapshot
    /\ \E l \in DamagedLedgers \cup {ResetJsonFile(MissingLedger(LedgerKeys))} :
          unit = [NoUnit EXCEPT !.ledger = l]

\* FileHasher::StoreFileHash.  The entry written last carries the newest
\* timestamp.
CallStoreFileHash ==
    /\ \E p \in LedgerPaths, v \in 1..MaxVer :
          unit' = [unit EXCEPT
                     !.ledger = StoreFileHash(Aged(unit.ledger), p, GetFileSHA256(v), Now),
                     !.asked = [NoCall EXCEPT
                                  !.kind = "StoreFileHash",
                                  !.path = p,
                                  !.found = LedgerForm(unit.ledger),
                                  !.current = GetFileSHA256(v)]]
    /\ UNCHANGED hostvars

\* FileHasher::GetStoredFileHash.  healed remembers the form of the
\* damaged file the lookups have repaired since the last damage.
CallGetStoredFileHash ==
    /\ \E p \in LedgerPaths :
          unit' = [unit EXCEPT
                     !.ledger = LedgerAfterGet(unit.ledger),
                     !.healed = IF LedgerForm(unit.ledger) \in BrokenForms
                                THEN LedgerForm(unit.ledger) ELSE @,
                     !.asked = [NoCall EXCEPT
                                  !.kind = "GetStoredFileHash",
                                  !.path = p,
                                  !.found = LedgerForm(unit.ledger),
                                  !.stored = GetStoredFileHash(unit.ledger, p)]]
    /\ UNCHANGED hostvars

\* Something removes the ledger file or overwrites it with other text.
DamageLedger ==
    /\ \E l \in DamagedLedgers :
          /\ l # unit.ledger
          /\ unit' = [unit EXCEPT !.ledger = l, !.healed = "none", !.asked = NoCall]
    /\ UNCHANGED hostvars

LedgerNext ==
    \/ CallStoreFileHash
    \/ CallGetStoredFileHash
    \/ DamageLedger

LedgerSpec == LedgerInit /\ [][LedgerNext]_vars

----------------------------------------------------------------------------
(* Two threads storing into one ledger file.  Each thread calls             *)
(* StoreFileHash once, on a FileHasher object that is the other thread's    *)
(* object or another object on the same file (CheckAndUpdateFileHash makes  *)
(* an object of its own on every call).                                     *)

PutInit ==
    /\ remote = 1
    /\ installed = [s \in Services |-> FALSE]
    /\ target = [s \in Services |-> 0]
    /\ svcRunning = installed
    /\ AgentDown
    /\ pre = Snapshot
    /\ \E l \in {MissingLedger(LedgerKeys), ResetJsonFile(MissingLedger(LedgerKeys))},
          h \in [Threads -> Hashers], p \in [Threads -> LedgerPaths],
          v \in [Threads -> 1..MaxVer] :
          unit = [NoUnit EXCEPT
                    !.ledger = l,
                    !.put = [t \in Threads |->
                               [NoPut EXCEPT !.pc = "called", !.hasher = h[t],
                                             !.path = p[t],
                                             !.hash = GetFileSHA256(v[t])]]]

\* std::lock_guard<std::mutex> lock(m_mutex)
PutLock(t) ==
    /\ unit.put[t].pc = "called"
    /\ unit.m_mutex[unit.put[t].hasher] = 0
    /\ unit' = [unit EXCEPT !.put[t].pc = "locked",
                            !.m_mutex[unit.put[t].hasher] = t]
    /\ UNCHANGED hostvars

\* The thread reads the ledger file into j.
PutRead(t) ==
    /\ unit.put[t].pc = "locked"
    /\ unit' = [unit EXCEPT
                   !.put[t].pc = "read",
                   !.put[t].j = IF IsObject(unit.ledger) THEN unit.ledger.map
                                ELSE [k \in DOMAIN unit.ledger.map |-> NoEntry]]
    /\ UNCHANGED hostvars

\* The thread sets its entry in j, writes j over the file and returns.
PutWrite(t) ==
    /\ unit.put[t].pc = "read"
    /\ unit' = [unit EXCEPT
                   !.put[t].pc = "done",
                   !.m_mutex[unit.put[t].hasher] = 0,
                   !.ledger = StoreFileHash(
                                 [exists |-> TRUE, json |-> "object",
                                  map |-> unit.put[t].j],
                                 unit.put[t].path, unit.put[t].hash, Old)]
    /\ UNCHANGED hostvars

PutNext == \E t \in Threads : PutLock(t) \/ PutRead(t) \/ PutWrite(t)

PutSpec == PutInit /\ [][PutNext]_vars

----------------------------------------------------------------------------
(* ServiceRestartManager::UpdateAndRestartService step by step, for one     *)
(* service.  Every look at the service (isServiceRunning) may find it in    *)
(* any state of the service controller; scm is the state the last look      *)
(* found.  files maps the paths the protocol touches to their contents.     *)

ScmStates == {"STOPPED", "START_PENDING", "STOP_PENDING", "RUNNING"}

\* WindowsServiceManager::isServiceRunning
isServiceRunning(state) == state = "RUNNING"

\* UpgradePathManager::GetBackupPath and the backup path both
\* UpdateAndRestartService and rollback start from.
GetBackupPath == ZipDirectory \o <<"backup", Sep>>
BackupPathOf(targetPath) == GetBackupPath \o Filename(targetPath)
BakSuffixed(targetPath) == targetPath \o <<".bak">>

\* The installed paths tried: one outside the backup directory, and one
\* inside it, for which the backup path is the target path itself.
CollidingTargetPath == GetBackupPath \o Filename(Service1TargetPath)
RestartTargets == {Service1TargetPath, CollidingTargetPath}
RestartPaths(t) == {t, BackupPathOf(t), BakSuffixed(t)}

\* The content of the staged executable and of the installed one.
NewFile == MaxVer
OldFile == 1

\* The stop loop goes on for one poll more than the code allows.
StopLoopGoesOn_OnePollMore(isRunning, retries) == isRunning /\ retries >= 0

\* while (serviceManager.isServiceRunning(m_serviceName) && retries-- > 0)
StopLoopGoesOn(isRunning, retries) == isRunning /\ retries > 0

RestartInit ==
    /\ remote = 1
    /\ installed = [s \in Services |-> TRUE]
    /\ target = [s \in Services |-> 1]
    /\ svcRunning = installed
    /\ AgentDown
    /\ pre = Snapshot
    /\ \E t \in RestartTargets, old \in {0, OldFile}, stale \in {0, OldFile},
          st \in ScmStates :
          unit = [NoUnit EXCEPT
                    !.rs = [NoRestart EXCEPT
                              !.pc = "entry",
                              !.m_targetPath = t,
                              !.scm = st,
                              !.files = [p \in RestartPaths(t) |->
                                           IF p = t THEN old
                                           ELSE IF p = BackupPathOf(t) THEN stale
                                           ELSE 0]]]

Returned(rs, v) == [rs EXCEPT !.pc = "returned", !.ret = v]

\* Lines 38-56: the service is installed and the new file exists; the
\* service is looked at once.
RsEnter ==
    /\ unit.rs.pc = "entry"
    /\ \E st \in ScmStates :
          unit' = [unit EXCEPT
                     !.rs = [@ EXCEPT !.scm = st,
                                      !.wasServiceRunning = isServiceRunning(st),
                                      !.retries = StopRetries,
                                      !.pc = IF isServiceRunning(st)
                                             THEN "stopwait" ELSE "backup"]]
    /\ UNCHANGED hostvars

\* Lines 59-66: the stop request, then one evaluation of the loop condition.
RsStopPoll ==
    /\ unit.rs.pc = "stopwait"
    /\ \E st \in ScmStates :
          unit' = [unit EXCEPT
                     !.rs = IF StopLoopGoesOn(isServiceRunning(st), @.retries)
                            THEN [@ EXCEPT !.scm = st, !.retries = @ - 1,
                                           !.stopPolls = @ + 1]
                            ELSE [@ EXCEPT !.scm = st, !.pc = "stopcheck"]]
    /\ UNCHANGED hostvars

\* Lines 68-73
RsStopCheck ==
    /\ unit.rs.pc = "stopcheck"
    /\ \E st \in ScmStates :
          unit' = [unit EXCEPT
                     !.rs = IF isServiceRunning(st)
                            THEN Returned([@ EXCEPT !.scm = st], FALSE)
                            ELSE [@ EXCEPT !.scm = st, !.pc = "backup"]]
    /\ UNCHANGED hostvars

\* Lines 76-106: the backup of the installed file, if there is one.
RsBackup ==
    /\ unit.rs.pc = "backup"
    /\ LET rs == unit.rs
           t == rs.m_targetPath
           bp == IF BackupPathOf(t) = t THEN BakSuffixed(t) ELSE BackupPathOf(t)
       IN  IF rs.files[t] = 0
           THEN unit' = [unit EXCEPT !.rs = [@ EXCEPT !.m_backupPath = BackupPathOf(t),
                                                      !.pc = "copy"]]
           ELSE \E ok \in BOOLEAN :
                   unit' = [unit EXCEPT
                      !.rs = IF ok
                             THEN [@ EXCEPT !.m_backupPath = bp,
                                            !.files[bp] = rs.files[t],
                                            !.wrote = bp,
                                            !.copiedWhile = @ \cup {rs.scm},
                                            !.pc = "copy"]
                             ELSE Returned([@ EXCEPT !.m_backupPath = bp,
                                                     !.copiedWhile = @ \cup {rs.scm}],
                                           FALSE)]
    /\ UNCHANGED hostvars

\* Lines 109-127: the copy of the new file over the installed path.
RsCopy ==
    /\ unit.rs.pc = "copy"
    /\ \E c \in CopyOutcomes :
          unit' = [unit EXCEPT
             !.rs = [@ EXCEPT
                       !.copiedWhile = @ \cup {unit.rs.scm},
                       !.files[unit.rs.m_targetPath] =
                           IF c = "ok" THEN NewFile
                           ELSE IF c = "partial" THEN Garbage ELSE @,
                       !.attempt = 1,
                       !.pc = IF c = "ok" THEN "start" ELSE "rollback"]]
    /\ UNCHANGED hostvars

\* Lines 129-153: one attempt of the start loop.
RsStartAttempt ==
    /\ unit.rs.pc = "start"
    /\ \E st \in ScmStates :
          unit' = [unit EXCEPT
             !.rs = IF isServiceRunning(st)
                    THEN Returned([@ EXCEPT !.scm = st, !.starts = @ + 1,
                                            !.files[unit.rs.m_backupPath] = 0],
                                  TRUE)
                    ELSE IF unit.rs.attempt < StartAttempts
                    THEN [@ EXCEPT !.scm = st, !.starts = @ + 1, !.attempt = @ + 1]
                    ELSE [@ EXCEPT !.scm = st, !.starts = @ + 1, !.pc = "rollback"]]
    /\ UNCHANGED hostvars

\* rollback, lines 170-193: the restore from GetBackupPath() + filename.
\* fs::copy of a file onto itself throws.
RsRollback ==
    /\ unit.rs.pc = "rollback"
    /\ LET rs == unit.rs
           t == rs.m_targetPath
           bp == BackupPathOf(t)
       IN  IF rs.files[bp] = 0
           THEN unit' = [unit EXCEPT !.rs = Returned(@, FALSE)]
           ELSE IF bp = t
           THEN unit' = [unit EXCEPT
                           !.rs = Returned([@ EXCEPT !.rbCopy = "samefile"], FALSE)]
           ELSE \E ok \in BOOLEAN :
                   unit' = [unit EXCEPT
                      !.rs = IF ~ok
                             THEN Returned([@ EXCEPT !.rbCopy = "fault"], FALSE)
                             ELSE IF rs.wasServiceRunning
                             THEN [@ EXCEPT !.rbCopy = "ok", !.files[t] = rs.files[bp],
                                            !.restoredFrom = bp, !.attempt = 1,
                                            !.pc = "rbpoll"]
                             ELSE Returned([@ EXCEPT !.rbCopy = "ok",
                                                     !.files[t] = rs.files[bp],
                                                     !.restoredFrom = bp], FALSE)]
    /\ UNCHANGED hostvars

\* rollback, lines 194-210: one poll after the start request.
RsRollbackPoll ==
    /\ unit.rs.pc = "rbpoll"
    /\ \E st \in ScmStates :
          unit' = [unit EXCEPT
             !.rs = IF isServiceRunning(st) \/ unit.rs.attempt >= RollbackAttempts
                    THEN Returned([@ EXCEPT !.scm = st, !.rbPolls = @ + 1], FALSE)
                    ELSE [@ EXCEPT !.scm = st, !.rbPolls = @ + 1, !.attempt = @ + 1]]
    /\ UNCHANGED hostvars

RestartNext ==
    \/ RsEnter
    \/ RsStopPoll
    \/ RsStopCheck
    \/ RsBackup
    \/ RsCopy
    \/ RsStartAttempt
    \/ RsRollback
    \/ RsRollbackPoll

\* Every sleep and every system call of the protocol returns.
RestartSpec == RestartInit /\ [][RestartNext]_vars /\ WF_vars(RestartNext)

----------------------------------------------------------------------------
(* The agent's own threads.  ServiceMain runs on one thread, the scheduler  *)
(* loop on the thread StartNexusManager creates, and the service-control    *)
(* manager calls ServiceControlHandler on the dispatcher's thread.  The     *)
(* state is in unit.svc: where each thread is, the status last handed to    *)
(* SetServiceStatus, and the two flags the threads share.                   *)

\* A StartNexusManager that creates the scheduler thread without waiting
\* for the initial installation to return.
SchedulerStartDue_DuringInstall(main) == main \in {"installing", "installed"}

\* StartNexusManager creates the scheduler thread when the initial
\* installation has returned.
SchedulerStartDue(main) == main = "installed"

\* ServiceMain has registered the control handler; the status is
\* SERVICE_START_PENDING.
ServiceInit ==
    /\ remote = 1
    /\ installed = [s \in Services |-> FALSE]
    /\ target = [s \in Services |-> 0]
    /\ svcRunning = installed
    /\ AgentDown
    /\ pre = Snapshot
    /\ unit = [NoUnit EXCEPT !.svc = [NoService EXCEPT !.main = "entered"]]

\* ServiceMain: LoadConfiguration, then SERVICE_RUNNING is reported, or
\* SERVICE_STOPPED when the configuration cannot be loaded.
SvcLoadConfiguration ==
    /\ unit.svc.main = "entered"
    /\ \E ok \in BOOLEAN :
          unit' = [unit EXCEPT
                     !.svc.main = IF ok THEN "running" ELSE "returned",
                     !.svc.status = IF ok THEN "RUNNING" ELSE "STOPPED",
                     !.svc.reportedBy = IF ok THEN "none" ELSE "ServiceMain"]
    /\ UNCHANGED hostvars

\* StartNexusManager loads the configuration again and returns without a
\* scheduler when that fails; otherwise the initial installation begins.
SvcStartNexusManager ==
    /\ unit.svc.main = "running"
    /\ \E ok \in BOOLEAN :
          unit' = [unit EXCEPT !.svc.main = IF ok THEN "installing" ELSE "waiting"]
    /\ UNCHANGED hostvars

\* PerformInitialInstallation returns, true or false: it catches what the
\* installation throws.
SvcInstallReturns ==
    /\ unit.svc.main = "installing"
    /\ \E success \in BOOLEAN :
          unit' = [unit EXCEPT !.svc.main = "installed", !.svc.installRan = TRUE,
                               !.svc.installResult = success]
    /\ UNCHANGED hostvars

\* running = true; schedulerThread = std::thread(StartCronScheduler); then
\* ServiceMain waits for stopService.
SvcStartScheduler ==
    /\ SchedulerStartDue(unit.svc.main)
    /\ unit.svc.sched = "none"
    /\ unit' = [unit EXCEPT !.svc.running = TRUE, !.svc.sched = "idle",
                            !.svc.main = IF unit.svc.main = "installed"
                                         THEN "waiting" ELSE unit.svc.main]
    /\ UNCHANGED hostvars

\* cron.tick() in the loop while (running): a pass falls due and begins.
SchedPassBegins ==
    /\ unit.svc.sched = "idle"
    /\ unit.svc.running
    /\ unit.svc.passes + 1 <= MaxCalls
    /\ unit' = [unit EXCEPT !.svc.sched = "pass", !.svc.passes = unit.svc.passes + 1]
    /\ UNCHANGED hostvars

\* PerformServiceUpgrade returns to the loop.
SchedPassEnds ==
    /\ unit.svc.sched = "pass"
    /\ unit' = [unit EXCEPT !.svc.sched = "idle"]
    /\ UNCHANGED hostvars

\* The loop reads running = false and StartCronScheduler returns.
SchedExit ==
    /\ unit.svc.sched = "idle"
    /\ ~unit.svc.running
    /\ unit' = [unit EXCEPT !.svc.sched = "exited"]
    /\ UNCHANGED hostvars

\* ServiceControlHandler on a stop or shutdown control, which the control
\* manager delivers to a service whose status is SERVICE_RUNNING:
\* SERVICE_STOP_PENDING is reported and stopService set.
HandlerSignals ==
    /\ unit.svc.handler = "idle"
    /\ unit.svc.status = "RUNNING"
    /\ unit' = [unit EXCEPT !.svc.handler = "signalled",
                            !.svc.status = "STOP_PENDING",
                            !.svc.stopService = TRUE]
    /\ UNCHANGED hostvars

\* ServiceControlHandler goes on: SERVICE_STOPPED is reported and the
\* handler returns.
HandlerReportsStopped ==
    /\ unit.svc.handler = "signalled"
    /\ unit' = [unit EXCEPT !.svc.handler = "returned",
                            !.svc.status = "STOPPED",
                            !.svc.reportedBy = "ServiceControlHandler"]
    /\ UNCHANGED hostvars

\* ServiceMain leaves while (!stopService) and calls StopNexusManager,
\* which sets running = false.
SvcStopNexusManager ==
    /\ unit.svc.main = "waiting"
    /\ unit.svc.stopService
    /\ unit' = [unit EXCEPT !.svc.main = "joining", !.svc.running = FALSE]
    /\ UNCHANGED hostvars

\* schedulerThread.join() returns when the thread has ended, or is not
\* called for a thread that was never created; ServiceMain then reports
\* SERVICE_STOPPED.
SvcJoined ==
    /\ unit.svc.main = "joining"
    /\ unit.svc.sched \in {"none", "exited"}
    /\ unit' = [unit EXCEPT !.svc.main = "returned",
                            !.svc.status = "STOPPED",
                            !.svc.reportedBy = "ServiceMain"]
    /\ UNCHANGED hostvars

ServiceNext ==
    \/ SvcLoadConfiguration
    \/ SvcStartNexusManager
    \/ SvcInstallReturns
    \/ SvcStartScheduler
    \/ SchedPassBegins
    \/ SchedPassEnds
    \/ SchedExit
    \/ HandlerSignals
    \/ HandlerReportsStopped
    \/ SvcStopNexusManager
    \/ SvcJoined

ServiceSpec == ServiceInit /\ [][ServiceNext]_vars

----------------------------------------------------------------------------
(* Properties.  A property of an operation on a service is read off the     *)
(* record of what the current run did to that service and the snapshot of   *)
(* the host taken when the run began.                                       *)

Ops(s) == trace[s].ops
Key(s) == NormalizePath(TargetPath(s))
RestoredAsBefore(s) ==
    /\ target[s] = pre.target[s]
    /\ svcRunning[s] = pre.svcRunning[s]

C8_StopTimeoutChangesNothing ==
    \A s \in Services :
        "stop_timeout" \in Ops(s) =>
            /\ ~trace[s].ret
            /\ trace[s].stopPolls = 10
            /\ Ops(s) \cap {"backup", "backup_failed", "replace", "replace_failed"} = {}
            /\ backup[s] = pre.backup[s]
            /\ target[s] = pre.target[s]

C8_StopTimedOut ==
    \E s \in Services :
        /\ "stop_timeout" \in Ops(s) /\ pre.svcRunning[s] /\ svcRunning[s]
        /\ ~trace[s].ret /\ target[s] # extracted.exe[s]

\* C9: UpdateService never issues the install command while the service is
\* registered: when the uninstall cannot be launched or the service is
\* still registered after it, UpdateService returns false and no install
\* command is issued.
C9_NoInstallWhileRegistered ==
    \A s \in Services :
        /\ "install_while_registered" \notin Ops(s)
        /\ Ops(s) \cap {"uninstall_failed", "still_installed"} # {} =>
               /\ ~trace[s].ret
               /\ Ops(s) \cap {"install", "install_failed"} = {}

C9_StillRegisteredAfterUninstall ==
    \E s \in Services :
        /\ "still_installed" \in Ops(s) /\ trace[s].path = "reinstall"
        /\ pre.installed[s] /\ installed[s] /\ ~trace[s].ret

\* C2 as stated: a service that was registered before an update attempt
\* (restart-only or full reinstall) is still registered when the attempt has
\* returned, whatever it returned.
C2_RegistrationKept ==
    \A s \in Services :
        (trace[s].path \in {"restart", "reinstall"} /\ pre.installed[s])
        => installed[s]

\* The executable ledger held the digest of the installed executable of s
\* when the run began.
Recorded(s) ==
    /\ pre.target[s] # 0
    /\ pre.svcLedger.exists
    /\ pre.svcLedger.map[Key(s)].file_hash = GetFileSHA256(pre.target[s])

UpgradePassDone == pc = "idle" /\ fetched.kind = "upgrade" /\ fetched.pkg # 0

HostAsBefore ==
    /\ zipLedger = pre.zipLedger
    /\ svcLedger = pre.svcLedger
    /\ target = pre.target

\* C3 as stated: an upgrade pass that fetches the package the preceding
\* upgrade pass fetched returns false and leaves the package ledger, the
\* executable ledger and both installed executables as they were.
C3_RepeatedPassIsNoOp ==
    (UpgradePassDone /\ fetched.prev = fetched.pkg)
    => (~result /\ HostAsBefore)

\* The agent is idle and running, no system call has failed so far, and the
\* package it has fetched, which is the published one, holds an executable
\* other than the installed one of the registered service s.
Lagging(s) ==
    /\ pc = "idle" /\ running /\ faults = 0
    /\ fetched.pkg = remote
    /\ installed[s] /\ target[s] # 0
    /\ Packages[remote].exe[s] \notin {0, target[s]}

\* The installed executable of s is the packaged one, or the premise has
\* gone: another package was published, the agent was stopped or a system
\* call failed.
CaughtUp(s) ==
    \/ Packages[remote].exe[s] = target[s]
    \/ fetched.pkg # remote
    \/ ~running
    \/ faults # 0

\* C4 as stated: when the package the agent has fetched holds an executable
\* other than the installed one of a registered service and fetch,
\* extraction and service control succeed, the installed executable
\* eventually is the packaged one; also right after a startup whose
\* initial-install run fetched the package.
C4_DifferingExecutableIsInstalled ==
    \A s \in Services : Lagging(s) ~> CaughtUp(s)

\* The package was found changed, the policy is restart-only, the installed
\* executable of a differs from the staged one and that of b equals it.
OnlyOneDiffers(a, b) ==
    /\ pc = "upgrade" /\ idx \notin Services
    /\ fetched.step = "extracted"
    /\ fetched.seen # GetFileSHA256(fetched.pkg)
    /\ ~m_fullReinstall
    /\ a # b
    /\ pre.target[a] # 0 /\ extracted.exe[a] # 0
    /\ pre.target[a] # extracted.exe[a]
    /\ pre.target[b] # 0 /\ pre.target[b] = extracted.exe[b]

LeftAlone(b) ==
    /\ trace[b].path = "unchanged" /\ Ops(b) = {}
    /\ target[b] = pre.target[b]
    /\ svcRunning[b] = pre.svcRunning[b]
    /\ svcLedger.map[Key(b)] = pre.svcLedger.map[Key(b)]

ThroughProtocol(a) ==
    /\ trace[a].path = "restart"
    /\ trace[a].ret =>
          /\ {"backup", "replace", "start", "verified", "commit"} \subseteq Ops(a)
          /\ pre.svcRunning[a] => {"stop", "stopped"} \subseteq Ops(a)

\* C5 as stated: in a pass where the package changed, full_reinstall is
\* false, the installed executable of A differs from the packaged one and
\* that of B equals it, only A goes through the replacement protocol; B is
\* not stopped, started or replaced and its ledger entry is as before.
C5_OnlyDifferingServiceTouched ==
    \A a \in Services : \A b \in Services :
        OnlyOneDiffers(a, b) => (ThroughProtocol(a) /\ LeftAlone(b))

\* C5: the same, for a pass in which service_hashes.json exists when B is
\* compared (it existed when the pass began, or A was compared before B).
C5_OnlyDifferingServiceTouchedGivenLedger ==
    \A a \in Services : \A b \in Services :
        (OnlyOneDiffers(a, b) /\ (pre.svcLedger.exists \/ a < b))
        => (ThroughProtocol(a) /\ LeftAlone(b))

C5_OneCommittedOtherLeftAlone ==
    \E a \in Services : \E b \in Services :
        /\ OnlyOneDiffers(a, b) /\ pre.svcLedger.exists
        /\ trace[a].ret /\ target[a] = extracted.exe[a]
        /\ LeftAlone(b) /\ pre.svcLedger.map[Key(b)].file_hash # NoDigest

NoServiceTouched ==
    /\ \A s \in Services : trace[s] = NoTrace
    /\ target = pre.target /\ installed = pre.installed
    /\ svcRunning = pre.svcRunning

\* C6 as stated: when the digest of the downloaded package is the one the
\* package ledger holds for it, PerformUpdate returns false, the archive is
\* deleted and no service is touched in the pass.
C6_KnownPackageIsDropped ==
    ( /\ fetched.kind = "upgrade" /\ fetched.pkg # 0
      /\ fetched.seen = GetFileSHA256(fetched.pkg) )
    => (fetched.step = "unchanged" /\ zipFile = 0 /\ NoServiceTouched)

\* C6: when the digest of the downloaded package is the one the package
\* ledger holds for it and the executable ledger holds the digest of each
\* installed executable, PerformUpdate returns false, the archive is deleted
\* and no service is touched in the pass.
C6_KnownPackageIsDroppedOnSettledHost ==
    ( /\ fetched.kind = "upgrade" /\ fetched.pkg # 0
      /\ fetched.seen = GetFileSHA256(fetched.pkg)
      /\ \A s \in Services : Recorded(s) )
    => (fetched.step = "unchanged" /\ zipFile = 0 /\ NoServiceTouched)

C6_KnownPackageDropped ==
    /\ fetched.kind = "upgrade" /\ fetched.pkg # 0
    /\ fetched.seen = GetFileSHA256(fetched.pkg)
    /\ \A s \in Services : Recorded(s)
    /\ fetched.step = "unchanged" /\ zipFile = 0 /\ pre.zipFile = 0

\* C10 as stated: after an initial-installation run that began with no
\* install policy document and no service registered and that reported
\* success for both services, both services are registered and the
\* executable ledger holds the digest of each installed executable.
C10_ReportedInstallIsRegistered ==
    ( /\ pc = "install" /\ idx \notin Services
      /\ extracted.inst = "absent"
      /\ \A s \in Services : ~pre.installed[s] /\ trace[s].ret )
    => \A s \in Services :
          /\ installed[s]
          /\ target[s] # 0
          /\ GetStoredFileHash(svcLedger, TargetPath(s)) = GetFileSHA256(target[s])

\* C13: across the upgrade passes of one agent process the monitor reports
\* the package as changed because no digest is stored for it (rather than
\* because the stored digest differs) at most once.
C13_ForcedSignalAtMostOnce == fetched.forced <= 1

\* A later pass of the process that gave the forced signal finds a digest
\* stored and reports another package as changed because the digest differs.
C13_ForcedThenRealChange ==
    /\ fetched.kind = "upgrade" /\ fetched.forced = 1
    /\ fetched.prev # 0 /\ fetched.pkg # 0
    /\ fetched.seen # NoDigest /\ fetched.seen # GetFileSHA256(fetched.pkg)
    /\ fetched.step = "extracted"

\* C14 as stated: a service whose packaged executable exists, whose
\* installed executable is missing and for which full reinstall is off is
\* reported as not updated, and nothing of it is changed.
C14_MissingTargetIsNotAnUpdate ==
    \A s \in Services :
        trace[s].path = "abort" =>
            /\ ~trace[s].ret
            /\ Ops(s) = {}
            /\ target[s] = pre.target[s] /\ installed[s] = pre.installed[s]
            /\ svcRunning[s] = pre.svcRunning[s]
            /\ svcLedger.map[Key(s)] = pre.svcLedger.map[Key(s)]

\* The run brought the packaged executable of s into service: its
\* restart-only protocol committed or its install registered the service.
ActuallyUpdated(s) == Ops(s) \cap {"commit", "registered"} # {}

\* C15 as stated: an upgrade pass leaves the extraction workspace cleaned
\* only if at least one service was actually updated in it.
C15_CleanedOnlyAfterUpdate ==
    (UpgradePassDone /\ fetched.step = "extracted" /\ extracted = EmptyWorkspace)
    => \E s \in Services : ActuallyUpdated(s)

\* C16 as stated: the initial-installation run returns true iff at least
\* one service was actually installed, and the extraction workspace is
\* cleaned only when it returns true.
C16_InstallResultAndCleanup ==
    (pc = "idle" /\ fetched.kind = "install" /\ fetched.step = "extracted")
    => /\ result <=> \E s \in Services : ActuallyUpdated(s)
       /\ extracted = EmptyWorkspace => result

\* The update of the first service was attempted in this pass and failed.
FirstServiceFailed ==
    /\ pc = "upgrade" /\ fetched.kind = "upgrade"
    /\ \/ trace[1].path \in {"restart", "reinstall"} /\ ~trace[1].ret
       \/ trace[1].path = "abort"

\* The package holds an executable for s other than the one installed when
\* the pass began.
PackagedDiffers(s) ==
    /\ fetched.pkg # 0
    /\ pre.target[s] # 0
    /\ Packages[fetched.pkg].exe[s] \notin {0, pre.target[s]}

C21_EarlierBackupKept ==
    \A s \in Services :
        ("backup" \in Ops(s) /\ pre.backup[s] # 0) => backup[s] = pre.backup[s]

\* The last upgrade pass found the downloaded package changed and was
\* abandoned because the extraction failed.
AbandonedAfterDetection ==
    /\ fetched.kind = "upgrade" /\ fetched.step = "extractfail"
    /\ fetched.seen # GetFileSHA256(fetched.pkg)

\* C22 as stated: when a pass has detected a changed package and was
\* abandoned because the extraction failed, the next pass, fetching the same
\* package, attempts the extraction again.
C22_AbandonedPassIsRetried ==
    [][ ( /\ AbandonedAfterDetection
          /\ beat' # beat
          /\ fetched'.pkg = fetched.pkg )
        => fetched'.step \in {"extracted", "extractfail"} ]_vars

\* No pass is in progress: the scheduler thread is back in its loop, and the
\* upgrade pass it ran last, if it reached the services, has brought each of
\* them to an end (updated, rolled back, failed, skipped or unchanged) or
\* was ended by an exception.
PassComplete ==
    /\ pc = "idle"
    /\ (fetched.kind = "upgrade" /\ fetched.step = "extracted") =>
          \/ \A s \in Services : trace[s].path # "none"
          \/ \E s \in Services : "exception" \in Ops(s)

\* C23: upgrade passes never overlap: a matching tick starts a pass only
\* when no pass is in progress, the pass before it having run to its end.
C23_PassesDoNotOverlap ==
    [][ beat' # beat => PassComplete ]_vars

\* A second pass of the same process is in progress, between its two
\* services, the first pass having updated a service.
C23_SecondPassInProgress ==
    /\ pc = "upgrade" /\ idx = 2
    /\ fetched.kind = "upgrade" /\ fetched.prev # 0
    /\ trace[1].path \in {"restart", "reinstall"}
    /\ trace[2].path = "none"

\* C24 as stated: once the stop signal is raised no new pass is started, and
\* a pass in progress is not aborted: it leaves the services only by coming
\* to its end.
C24_PassInProgressSurvivesStop ==
    [][ /\ ~running => beat' = beat
        /\ pc = "upgrade" => pc' \in {"upgrade", "idle"} ]_vars

\* C25: an exception thrown during an upgrade pass is caught: the scheduler
\* loop goes on, and while the stop flag is not set the next matching tick
\* starts a pass.
C25_ExceptionDoesNotEndLoop ==
    ((\E s \in Services : "exception" \in Ops(s)) /\ running)
    => (pc = "idle" /\ ENABLED Tick)

\* A pass has ended in an exception at the second service and the scheduler
\* is back in its loop with the flag set.
C25_LoopGoesOnAfterException ==
    /\ "exception" \in Ops(2)
    /\ trace[1].path # "none"
    /\ pc = "idle" /\ running /\ ~result

FetchFailed == fetched.kind = "upgrade" /\ fetched.step \in {"nourl", "dlfail"}

\* C26: when the package URL cannot be resolved or the download fails, the
\* pass returns false, extracts nothing and does not touch any managed
\* service, and the scheduler goes on: while the stop flag is not set the
\* next matching tick starts a pass.
C26_FailedFetchEndsPassOnly ==
    /\ [](FetchFailed =>
            /\ pc \in {"idle", "down"}
            /\ ~result
            /\ NoServiceTouched
            /\ backup = pre.backup /\ svcLedger = pre.svcLedger
            /\ (pc = "idle" /\ running) => ENABLED Tick)
    /\ [][ (beat' # beat /\ fetched'.step \in {"nourl", "dlfail"})
           => (extracted' = extracted /\ running' = running) ]_vars

\* A pass has failed to download the package published after the one the
\* pass before it fetched; the scheduler is back in its loop.
C26_DownloadFailedLoopGoesOn ==
    /\ FetchFailed /\ fetched.step = "dlfail"
    /\ fetched.prev # 0 /\ fetched.prev # remote
    /\ pc = "idle" /\ running

\* C33 as stated: in an initial installation, InstallServiceIfNeeded called
\* for a service that is already registered issues no uninstall and no
\* install command and returns false.
C33_RegisteredServiceLeftAlone ==
    \A s \in Services :
       (fetched.kind = "install" /\ pre.installed[s] /\ trace[s].path # "none")
          => /\ Ops(s) \cap {"uninstall", "uninstall_failed", "install",
                             "install_failed"} = {}
             /\ ~trace[s].ret

\* The restart-only update of the service failed in the pass just ended and
\* the rollback restored the installed executable.
RolledBackRestart(s) ==
    /\ pc = "idle" /\ fetched.kind = "upgrade"
    /\ trace[s].path = "restart" /\ ~trace[s].ret
    /\ "restore" \in Ops(s)

\* At the start of the pass the ledger already held the digest of the
\* packaged executable for the service while the installed one differed.
LedgerAheadAtStart(s) ==
    /\ fetched.kind = "upgrade" /\ fetched.pkg # 0
    /\ pre.target[s] # 0
    /\ Packages[fetched.pkg].exe[s] # 0
    /\ pre.target[s] # Packages[fetched.pkg].exe[s]
    /\ GetStoredFileHash(pre.svcLedger, TargetPath(s))
          = GetFileSHA256(Packages[fetched.pkg].exe[s])

\* C35: after a restart-only update that failed and was rolled back, the
\* next pass that fetches the same package extracts it, and a pass that
\* starts with the ledger holding the packaged digest for a service whose
\* installed executable differs attempts the update of that service.
C35_RolledBackUpdateIsRetried ==
    /\ [][ ( /\ \E s \in Services : RolledBackRestart(s)
             /\ beat' # beat
             /\ fetched'.pkg = fetched.pkg
             /\ fetched'.step # "extractfail" )
           => (fetched'.step = "extracted" /\ pc' = "upgrade") ]_vars
    /\ []( (pc = "idle" /\ fetched.step = "extracted")
             => \A s \in Services :
                   LedgerAheadAtStart(s) => trace[s].path \in {"restart", "reinstall"} )

C35_RetriedAfterRollback ==
    /\ pc = "idle" /\ fetched.step = "extracted"
    /\ fetched.prev = fetched.pkg
    /\ fetched.seen = GetFileSHA256(fetched.pkg)
    /\ \E s \in Services :
          /\ LedgerAheadAtStart(s)
          /\ trace[s].path = "restart" /\ trace[s].ret
          /\ target[s] = Packages[fetched.pkg].exe[s]

\* The pass just ended compared every service and found the installed
\* executable equal to the packaged one.
NoUpdateNeeded ==
    /\ pc = "idle" /\ fetched.kind = "upgrade" /\ fetched.step = "extracted"
    /\ \A s \in Services :
          /\ trace[s].path = "unchanged"
          /\ target[s] = Packages[fetched.pkg].exe[s]

\* C36 as stated: after a pass that found every installed executable equal
\* to the packaged one, the next pass for the same package deletes the
\* download without extracting it.
C36_NextPassIsNoOp ==
    [][ (NoUpdateNeeded /\ beat' # beat /\ fetched'.pkg = fetched.pkg)
          => (fetched'.step = "unchanged" /\ zipFile' = 0
              /\ extracted' = extracted) ]_vars

\* The step is the end of a run that performed an update: the run calls
\* CleanExtractedFolder.
CleanupStep ==
    /\ pc \in {"install", "upgrade"} /\ pc' = "idle"
    /\ idx \notin Services
    /\ updatePerformed

\* The run ended with the cleanup of the workspace while the ledger of the
\* executables held a digest.
CleanedWithLedger ==
    /\ pc = "idle" /\ result
    /\ extracted = EmptyWorkspace
    /\ svcLedger.exists
    /\ \E s \in Services : GetStoredFileHash(svcLedger, TargetPath(s)) # NoDigest

\* C40: CleanExtractedFolder leaves service_hashes.json as it is: the file
\* exists after the cleanup if it did before, with the same entries, while
\* the staged files are removed; so it is too when the start of the agent
\* cleans the workspace of an installation that is not to be made.
C40_CleanupKeepsLedger ==
    [][ /\ CleanupStep => (svcLedger' = svcLedger /\ extracted' = EmptyWorkspace)
        /\ (pc = "down" /\ pc' # "down") => svcLedger' = Aged(svcLedger) ]_vars

\* C40, witness: a pass that updated a service has cleaned the workspace of
\* an upgrade and the ledger still holds what the pass stored.
C40_LedgerSurvivedCleanup ==
    CleanedWithLedger /\ fetched.kind = "upgrade"

----------------------------------------------------------------------------
(* Properties of the components on their own. *)

\* The last call was the change detector kind, on a file that exists.
AskedDetector(kind) == unit.asked.kind = kind /\ unit.asked.current # NoDigest

\* The ledger held no digest for the file or a digest other than the file's.
FirstSeenOrDiffers ==
    \/ unit.asked.stored = NoDigest
    \/ unit.asked.stored # unit.asked.current

C12_ForcedSignalExactlyOnce ==
    ( /\ unit.live /\ unit.bare /\ unit.existed /\ ~unit.modified
      /\ unit.calls = MaxCalls )
    => unit.trues = 1

\* The last call was a reading of install_config.json / upgrade_config.json.
AskedPolicy(kind) == unit.asked.kind = kind

\* Documents that open and parse and whose services entries are well typed.
ReadableInstallDocs == {"nofield", "nonbool", "false", "true"}

\* Documents that exist but cannot be opened or parsed, or hold a wrongly
\* typed field.
BrokenInstallDocs == {"unopenable", "unparseable", "badservice", "nonbool"}

\* C18: ShouldPerformInitialInstall answers, for an absent document, true
\* exactly when some managed service is not installed; for a present and
\* readable document, true exactly when enable_initial_install is the
\* boolean true or some managed service is not installed.
C18_InstallDecisionRule ==
    AskedPolicy("ShouldPerformInitialInstall") =>
        /\ unit.asked.doc = "absent" =>
              (unit.asked.ret <=> ~AreServicesInstalled)
        /\ unit.asked.doc \in ReadableInstallDocs =>
              (unit.asked.ret <=> (unit.asked.doc = "true" \/ ~AreServicesInstalled))

\* The document disables installation, a service is missing, and the answer
\* is to install.
C18_MissingServiceOverridesFlag ==
    /\ AskedPolicy("ShouldPerformInitialInstall")
    /\ unit.asked.doc = "false"
    /\ ~AreServicesInstalled
    /\ unit.asked.ret

\* C19 as stated: for a document that exists but cannot be opened or
\* parsed, or that holds a wrongly typed field, ShouldPerformInitialInstall
\* answers as it does for an absent document, true exactly when some managed
\* service is not installed.
C19_BrokenDocumentDecidesAsAbsent ==
    ( /\ AskedPolicy("ShouldPerformInitialInstall")
      /\ unit.asked.doc \in BrokenInstallDocs )
    => (unit.asked.ret <=> ~AreServicesInstalled)

\* C20: NeedsFullReinstall answers false for an absent upgrade_config.json,
\* gives that same answer for a document that is unparseable or whose
\* full_reinstall field is missing or not a boolean, and answers true only
\* when the field is the boolean true.
C20_FullReinstallOnlyOnBooleanTrue ==
    AskedPolicy("NeedsFullReinstall") =>
        /\ unit.asked.doc \in {"absent", "unparseable", "nofield", "nonbool"}
              => ~unit.asked.ret
        /\ unit.asked.ret => unit.asked.doc = "true"

\* The field is present with a value that is not a boolean, and the answer
\* is restart-only.
C20_NonBooleanFieldIsRestartOnly ==
    /\ AskedPolicy("NeedsFullReinstall")
    /\ unit.asked.doc = "nonbool"
    /\ ~unit.asked.ret

\* The last call found a file that exists but whose digest cannot be computed.
AskedOnUnreadable(kind) ==
    /\ unit.asked.kind = kind
    /\ \/ unit.asked.file = Unreadable
       \/ unit.asked.file # 0 /\ unit.asked.other = Unreadable

\* A ledger holding the digest of content v for the watched file.
LedgerHolding(v) ==
    StoreFileHash(MissingLedger(ZipKeys), ZipFilePath, GetFileSHA256(v), Old)

\* The answers of the two detectors for a file that has not changed.
UnchangedRestartAnswer ==
    ShouldRestartService(1, LedgerHolding(1), ZipFilePath, FALSE, Old).ret
UnchangedCheckAnswer ==
    CheckAndUpdateFileHash(1, 1, LedgerHolding(1), ZipFilePath, Old).ret

\* C27 as stated: when the digest of a file cannot be computed,
\* ShouldRestartService and CheckAndUpdateFileHash do not return the result
\* they return for an unchanged file.
C27_UnreadableIsNotUnchanged ==
    /\ AskedOnUnreadable("ShouldRestartService")
          => unit.asked.ret # UnchangedRestartAnswer
    /\ AskedOnUnreadable("CheckAndUpdateFileHash")
          => unit.asked.ret # UnchangedCheckAnswer

----------------------------------------------------------------------------
(* Properties of the ledger on its own. *)

\* The ledger file is an object without entries.
EmptyObject(ledger) == ledger = ResetJsonFile(ledger)

\* A lookup of the path would return the digest and leave the file alone.
NextGetReturns(path, hash) ==
    /\ GetStoredFileHash(unit.ledger, path) = hash
    /\ LedgerAfterGet(unit.ledger) = unit.ledger

\* C28: on a ledger file that is missing, unparseable or not a JSON object,
\* GetStoredFileHash returns no digest and leaves the file as an empty
\* object; a StoreFileHash on such a file, or on the file a lookup has
\* repaired, leaves an object from which the next lookup of the path returns
\* the digest stored.
C28_BrokenLedgerIsEmpty ==
    /\ (unit.asked.kind = "GetStoredFileHash" /\ unit.asked.found \in BrokenForms)
          => (unit.asked.stored = NoDigest /\ EmptyObject(unit.ledger))
    /\ ( /\ unit.asked.kind = "StoreFileHash"
         /\ (unit.asked.found \in BrokenForms \/ unit.healed # "none") )
          => (IsObject(unit.ledger)
              /\ NextGetReturns(unit.asked.path, unit.asked.current))

C28_StoredAfterRepair ==
    /\ unit.asked.kind = "StoreFileHash"
    /\ unit.healed = "unparseable"
    /\ unit.asked.found = "object"
    /\ unit.asked.current # NoDigest
    /\ NextGetReturns(unit.asked.path, unit.asked.current)

\* The digest a ledger holds under a key.
DigestAt(ledger, k) == IF IsObject(ledger) THEN ledger.map[k].file_hash ELSE NoDigest

\* C29: after StoreFileHash(p, d) the lookup of every spelling that
\* normalizes to the key of p returns d, whatever digest the key held before
\* (a repeated store leaves it, a later store replaces it), and the store
\* leaves the digest of every other key as it was.
C29_LedgerIsMapByNormalizedPath ==
    /\ [](unit.asked.kind = "StoreFileHash" =>
            \A q \in LedgerPaths :
               NormalizePath(q) = NormalizePath(unit.asked.path)
                  => GetStoredFileHash(unit.ledger, q) = unit.asked.current)
    /\ [][ unit'.asked.kind = "StoreFileHash" =>
             \A k \in LedgerKeys \ {NormalizePath(unit'.asked.path)} :
                DigestAt(unit'.ledger, k) = DigestAt(unit.ledger, k) ]_vars

C29_StoredUnderOtherSpelling ==
    /\ unit.asked.kind = "StoreFileHash"
    /\ unit.asked.path = UpgradeDownloadPath
    /\ unit.asked.found = "object"
    /\ GetStoredFileHash(unit.ledger, ZipFilePath) = unit.asked.current
    /\ unit.ledger.map[NormalizePath(ZipFilePath)].timestamp = Now
    /\ GetStoredFileHash(unit.ledger, Service1TargetPath)
          \notin {NoDigest, unit.asked.current}
    /\ unit.ledger.map[NormalizePath(Service1TargetPath)].timestamp = Old

\* Two spellings the file system takes for the same file: they differ in
\* letter case, in the direction of the slashes or in repeated separators.
LowerCase(t) == IF t = "UPGRADE" THEN "upgrade" ELSE IF t = "ZIP" THEN "zip" ELSE t
FileOf(p) ==
    NormalizePath([i \in 1..Len(p) |-> IF p[i] = "/" THEN Sep ELSE LowerCase(p[i])])
SameFile(p, q) == FileOf(p) = FileOf(q)

\* C30 as stated: a digest stored under one spelling of a file's path is
\* returned by the lookup under every spelling that differs from it only in
\* letter case, in forward versus back slashes or in repeated backslashes.
C30_KeysIgnoreCaseAndSeparators ==
    unit.asked.kind = "StoreFileHash" =>
       \A q \in LedgerPaths :
          SameFile(q, unit.asked.path)
             => GetStoredFileHash(unit.ledger, q) = unit.asked.current

----------------------------------------------------------------------------
(* Properties of two threads storing into one ledger file. *)

BothPutsDone == \A t \in Threads : unit.put[t].pc = "done"
DifferentKeys == NormalizePath(unit.put[1].path) # NormalizePath(unit.put[2].path)

\* C31 as stated: when two threads have each completed a StoreFileHash on the
\* same ledger file for different paths, the ledger holds both entries.
C31_NoLostUpdate ==
    (BothPutsDone /\ DifferentKeys) =>
       \A t \in Threads :
          GetStoredFileHash(unit.ledger, unit.put[t].path) = unit.put[t].hash

----------------------------------------------------------------------------
(* Properties of UpdateAndRestartService step by step. *)

RestartReturned == unit.rs.pc = "returned"

\* C32: whatever state each look at the service finds, UpdateAndRestartService
\* makes at most StopRetries stop polls, StartAttempts start attempts and
\* RollbackAttempts rollback polls, and it returns.
C32_BoundedAndReturns ==
    /\ [](/\ unit.rs.stopPolls <= StopRetries
          /\ unit.rs.starts <= StartAttempts
          /\ unit.rs.rbPolls <= RollbackAttempts)
    /\ <>RestartReturned

C32_AllBudgetsUsed ==
    /\ RestartReturned
    /\ unit.rs.stopPolls = StopRetries
    /\ unit.rs.starts = StartAttempts
    /\ unit.rs.rbPolls = RollbackAttempts

\* C34 as stated: the protocol copies the installed executable to the
\* backup, and the new executable over it, only while the service is
\* stopped, never while it is running, start-pending or stop-pending.
C34_CopiesOnlyWhenStopped == unit.rs.copiedWhile \subseteq {"STOPPED"}

\* The rollback of a run ended, by restoring or by finding nothing to do.
RolledBack ==
    /\ RestartReturned
    /\ unit.rs.rbCopy # "none" \/ unit.rs.restoredFrom # NoPath

\* C38 as stated: for every installed path, the one inside the backup
\* directory included, a rollback restores the installed executable from the
\* file the backup step of the same run wrote, and from no other file.
C38_RestoresFromOwnBackup ==
    RolledBack =>
       /\ unit.rs.restoredFrom # NoPath => unit.rs.restoredFrom = unit.rs.wrote
       /\ (unit.rs.wrote # NoPath /\ unit.rs.rbCopy # "fault")
             => /\ unit.rs.restoredFrom = unit.rs.wrote
                /\ unit.rs.files[unit.rs.m_targetPath] = unit.rs.files[unit.rs.wrote]

\* The scheduler thread exists and has not returned from StartCronScheduler.
SchedulerAlive == unit.svc.sched \in {"idle", "pass"}

\* C37: whenever the status reported to the operating system is
\* SERVICE_STOPPED, the scheduler thread has exited: it is not in its loop
\* and no upgrade pass is in progress.
C37_StoppedAfterSchedulerExit ==
    unit.svc.status = "STOPPED" => ~SchedulerAlive

\* The initial installation is running on ServiceMain's thread.
InstallInProgress == unit.svc.main = "installing"

\* An upgrade pass is running on the scheduler thread.
PassInProgress == unit.svc.sched = "pass"

\* C39: the scheduler thread exists only after the initial installation of
\* this start has returned, so an initial installation and an upgrade pass
\* are never in progress together.
C39_InstallBeforeScheduler ==
    /\ unit.svc.sched # "none" => (unit.svc.installRan /\ ~InstallInProgress)
    /\ ~(InstallInProgress /\ PassInProgress)

\* An upgrade pass is in progress in a process whose initial installation
\* has run.
C39_PassAfterInstall == PassInProgress /\ unit.svc.installRan /\ unit.svc.passes = 1

====
